---- MODULE Spec2Model ----
(***************************************************************************)
(* AzureDevOpsClient (src/mcp_azure_devops/azure_devops_client.py) and     *)
(* MCPAzureDevOpsServer (src/mcp_azure_devops/server.py).                  *)
(*                                                                         *)
(* Spec:       update_wiki_page_safe, create_or_update_wiki_page_smart,    *)
(*             move_wiki_page and create_wiki_pages_batch against a remote *)
(*             wiki whose pages carry a version token.                     *)
(* SpecMeta:   get_work_item_transitions.                                  *)
(* SpecLookup: search_wiki_pages, get_wiki_page_by_title,                  *)
(*             list_all_wikis_in_organization, get_work_item.              *)
(* SpecViews:  get_wiki_page_tree, get_wiki_page_suggestions.              *)
(* SpecServer: construction of the client, run() and the call_tool         *)
(*             handler.                                                    *)
(*                                                                         *)
(* One behaviour is one client call (or one run of the server): every      *)
(* remote call is one step, so that a concurrent writer can act between    *)
(* the fetch and the write of an attempt.                                  *)
(***************************************************************************)
EXTENDS Integers, Sequences, FiniteSets, TLC

VARIABLES
    wiki,        \* remote wiki: path -> Absent or [content, version]
    wiki0,       \* the remote wiki as it was when the call started
    calls,       \* log of the remote calls issued so far, in order
    op,          \* the client method being executed ("idle" before the call)
    pc,          \* position inside the method
    args,        \* the arguments of the call
    attempt,     \* update_wiki_page_safe: loop variable of range(max_retries)
    etag,        \* update_wiki_page_safe: token extracted by the last fetch
    local,       \* move_wiki_page: source_content / target_page; batch: results
    outcome,     \* how the call ended: nothing yet, a returned value, a raised error
    touched,     \* the concurrent writer changed the page since the last fetch
    beaten,      \* number of attempts whose fetch-to-write window was interfered with
    nominal,     \* every remote answer so far was the service's regular one
    remote,      \* what the service holds besides pages: page listing, projects, types
    server       \* MCPAzureDevOpsServer: environment, client, phase, calls served

vars == <<wiki, wiki0, calls, op, pc, args, attempt, etag, local, outcome, touched, beaten, nominal, remote, server>>

----------------------------------------------------------------------------
\* Bounds of the model.

\* largest max_retries a caller passes
MaxRetries == 3

\* longest pages_data list given to create_wiki_pages_batch
MaxBatch == 2

\* default of the max_retries parameter
DefaultMaxRetries == 3

\* version tokens: enough for one concurrent write per attempt plus the client's own
MaxVersion == MaxRetries + 2

Paths == {"/a", "/b"}

\* page contents given by callers
Contents == {"c1", "c2"}

\* the content attribute of a page that has none (None)
NoContent == "<None>"

ExtContent == "ext"

Absent == [exists |-> FALSE]

\* version=None of create_or_update_page
NoVersion == 0

----------------------------------------------------------------------------
\* Error messages.  A message is the sequence of its words; str(e).lower()
\* lowers every word, and "x in str(e)" is the search of a contiguous run.

Lower(w) ==
    CASE w = "Version" -> "version"
      [] w = "VERSION" -> "version"
      [] w = "Not" -> "not"
      [] w = "NOT" -> "not"
      [] w = "Found" -> "found"
      [] w = "FOUND" -> "found"
      [] w = "Page" -> "page"
      [] w = "Source" -> "source"
      [] w = "Failed" -> "failed"
      [] OTHER -> w

LowerMsg(m) == [i \in 1..Len(m) |-> Lower(m[i])]

Contains(m, needle) ==
    \E i \in 1..(Len(m) - Len(needle) + 1) :
        SubSeq(m, i, i + Len(needle) - 1) = needle

\* messages the remote service (or the transport) may raise
ErrMsgs ==
    { <<"Version", "conflict">>,
      <<"Page", "Not", "Found">>,
      <<"HTTP", "404">>,
      <<"server", "error">>,
      <<"page", "could", "not", "be", "found">>,
      <<"VERSION", "of", "page", "not", "found">> }

AlreadyExistsMsg == <<"page", "already", "exists">>

PageMissingMsg == <<"Page", "Not", "Found">>

\* an exception object: its message and the remote call (index in calls) that
\* raised it; src = 0 for an exception the client code itself constructs
Err(m, s) == [msg |-> m, src |-> s]

----------------------------------------------------------------------------
\* The remote wiki service behind self.wiki_client.

Page(c, v) == [exists |-> TRUE, content |-> c, version |-> v]

NoneResp == [kind |-> "None"]

\* the object get_page returns: the token attributes it carries (attribute
\* name -> value) and its page attribute (None, or path and content)
Resp(tags, page) == [kind |-> "resp", tags |-> tags, page |-> page]

NoPage == [exists |-> FALSE]

PageAttr(p, c) == [exists |-> TRUE, path |-> p, content |-> c, url |-> <<"url", p>>]

\* the attribute layouts a response may have: the SDK's WikiPageResponse
\* (e_tag), a raw payload (page.eTag), and an object that carries no token
TagLayouts(v) == { ("e_tag" :> v), ("page.eTag" :> v), <<>> }

\* get_page(path): the answers the service can give.  regular marks the
\* answer of the real service without transport faults.
GetPageAnswers(w, p) ==
    LET faults == { [ok |-> FALSE, msg |-> m, regular |-> FALSE] : m \in ErrMsgs }
    IN  IF w[p].exists
        THEN faults \cup
             { [ok |-> TRUE,
                resp |-> Resp(t, PageAttr(p, w[p].content)),
                regular |-> (t = ("e_tag" :> w[p].version))] :
               t \in TagLayouts(w[p].version) }
        ELSE faults \cup
             { [ok |-> FALSE, msg |-> PageMissingMsg, regular |-> TRUE],
               [ok |-> TRUE, resp |-> NoneResp, regular |-> FALSE],
               [ok |-> TRUE, resp |-> Resp(<<>>, NoPage), regular |-> FALSE] }

\* the locations of a token on the object get_page returns
TokenAttrs == {"eTag", "etag", "e_tag", "_etag", "page.eTag", "page.etag", "page.e_tag"}

\* objects of any shape: each location absent or holding a token, the token
\* of the page or another one; and the SDK's object, whose declared e_tag
\* attribute is None and whose eTag is the ETag header, or None without it
ObjectLayouts(v) ==
    UNION { [D -> {v, v + 1}] : D \in SUBSET TokenAttrs }
    \cup { ("eTag" :> x) @@ ("e_tag" :> NoVersion) : x \in {v, NoVersion} }

ObjectAnswers(w, p) ==
    LET faults == { [ok |-> FALSE, msg |-> m, regular |-> FALSE] : m \in ErrMsgs }
    IN  IF w[p].exists
        THEN faults \cup
             { [ok |-> TRUE,
                resp |-> Resp(t, PageAttr(p, w[p].content)),
                regular |-> (t = ("e_tag" :> w[p].version))] :
               t \in ObjectLayouts(w[p].version) }
        ELSE GetPageAnswers(w, p)

\* the answers of get_page to an update: objects of any shape where the
\* shape is what is looked at, the layouts of TagLayouts otherwise
FetchAnswers(w, p) ==
    IF remote.kind = "objects" THEN ObjectAnswers(w, p) ELSE GetPageAnswers(w, p)

\* a version message the service uses to reject a stale token
ConflictMsgs == { <<"Version", "conflict">> }

\* create_or_update_page(path, content, version): a write without a version
\* creates the page and is refused when the page exists; a write with a
\* version edits the page and is refused when the token is stale.  A refused
\* or failed write changes nothing.
WriteAnswers(w, p, c, v) ==
    LET faults == { [ok |-> FALSE, msg |-> m, regular |-> FALSE, wiki |-> w] :
                    m \in ErrMsgs }
        refuse(ms) == { [ok |-> FALSE, msg |-> m, regular |-> TRUE, wiki |-> w] :
                        m \in ms }
        accept(nv) == { [ok |-> TRUE, regular |-> TRUE,
                         wiki |-> [w EXCEPT ![p] = Page(c, nv)],
                         resp |-> Resp(("e_tag" :> nv), PageAttr(p, c))] }
    IN  faults \cup
        ( IF v = NoVersion
          THEN IF w[p].exists THEN refuse({AlreadyExistsMsg}) ELSE accept(1)
          ELSE IF ~w[p].exists THEN refuse({PageMissingMsg})
               ELSE IF w[p].version = v THEN accept(v + 1)
               ELSE refuse(ConflictMsgs) )

\* delete_page(path): removes the page; a failed delete changes nothing
DeleteAnswers(w, p) ==
    { [ok |-> FALSE, msg |-> m, regular |-> FALSE, wiki |-> w] : m \in ErrMsgs }
    \cup
    ( IF w[p].exists
      THEN { [ok |-> TRUE, regular |-> TRUE, wiki |-> [w EXCEPT ![p] = Absent]] }
      ELSE { [ok |-> FALSE, msg |-> PageMissingMsg, regular |-> TRUE, wiki |-> w] } )

\* one entry of the call log; err is <<>> when the call returned
Call(fn, by, p, v, c, e) ==
    [fn |-> fn, by |-> by, path |-> p, version |-> v, content |-> c, err |-> e]

ErrOf(a) == IF a.ok THEN <<>> ELSE a.msg

----------------------------------------------------------------------------
\* update_wiki_page_safe

Has(resp, attr) == resp.kind = "resp" /\ attr \in DOMAIN resp.tags

HasPage(resp) == resp.kind = "resp"


\* variant: the attributes of the nested page are probed first
ExtractETag_NestedFirst(resp) ==
    IF HasPage(resp) /\ Has(resp, "page.eTag") THEN resp.tags["page.eTag"]
    ELSE IF HasPage(resp) /\ Has(resp, "page.etag") THEN resp.tags["page.etag"]
    ELSE IF HasPage(resp) /\ Has(resp, "page.e_tag") THEN resp.tags["page.e_tag"]
    ELSE IF Has(resp, "eTag") THEN resp.tags["eTag"]
    ELSE IF Has(resp, "etag") THEN resp.tags["etag"]
    ELSE IF Has(resp, "e_tag") THEN resp.tags["e_tag"]
    ELSE IF Has(resp, "_etag") THEN resp.tags["_etag"]
    ELSE NoVersion

\* variant: the e_tag attribute is not probed
ExtractETag_NoSnakeCase(resp) ==
    IF Has(resp, "eTag") THEN resp.tags["eTag"]
    ELSE IF Has(resp, "etag") THEN resp.tags["etag"]
    ELSE IF Has(resp, "_etag") THEN resp.tags["_etag"]
    ELSE IF HasPage(resp) /\ Has(resp, "page.eTag") THEN resp.tags["page.eTag"]
    ELSE IF HasPage(resp) /\ Has(resp, "page.etag") THEN resp.tags["page.etag"]
    ELSE NoVersion

\* the hasattr chain: the first attribute present wins, None when there is none
ExtractETag(resp) ==
    IF Has(resp, "eTag") THEN resp.tags["eTag"]
    ELSE IF Has(resp, "etag") THEN resp.tags["etag"]
    ELSE IF Has(resp, "e_tag") THEN resp.tags["e_tag"]
    ELSE IF Has(resp, "_etag") THEN resp.tags["_etag"]
    ELSE IF HasPage(resp) /\ Has(resp, "page.eTag") THEN resp.tags["page.eTag"]
    ELSE IF HasPage(resp) /\ Has(resp, "page.etag") THEN resp.tags["page.etag"]
    ELSE IF HasPage(resp) /\ Has(resp, "page.e_tag") THEN resp.tags["page.e_tag"]
    ELSE NoVersion


\* variant: a token found in an earlier attempt is kept
AttemptETag_KeepsEarlier(earlier, page) ==
    IF earlier # NoVersion THEN earlier ELSE ExtractETag(page)

\* etag = None, then the hasattr chain, in an attempt of update_wiki_page_safe:
\* the value left by an earlier attempt plays no part
AttemptETag(earlier, page) == ExtractETag(page)

\* "version" in str(e).lower()
IsVersionMsg(m) == Contains(LowerMsg(m), <<"version">>)

\* variant: the bound of the retry test is one too small
ShouldRetry_OneFewer(e, att, n) == IsVersionMsg(e.msg) /\ att < n - 2

\* variant: the message is not looked at
ShouldRetry_AnyError(e, att, n) == att < n - 1

\* the retry condition of the except clause
ShouldRetry(e, att, n) == IsVersionMsg(e.msg) /\ att < n - 1

\* the error raised after the loop
ExhaustedErr(n) ==
    Err(<<"Failed", "to", "update", "wiki", "page", "after", ToString(n),
          "attempts", "due", "to", "version", "conflicts">>, 0)

\* variant: the message is not lowered before the search
NotFoundFlavoured_CaseSensitive(m) ==
    Contains(m, <<"not", "found">>) \/ Contains(m, <<"404">>)

\* "not found" in str(e).lower() or "404" in str(e)
NotFoundFlavoured(m) ==
    Contains(LowerMsg(m), <<"not", "found">>) \/ Contains(m, <<"404">>)

Returned(v) == [kind |-> "return", value |-> v]

Raised(e) == [kind |-> "raise", err |-> e]

NoOutcome == [kind |-> "none"]

\* where control goes when update_wiki_page_safe returns v: to its caller,
\* which is the tool call itself or create_or_update_wiki_page_smart
AfterSafeReturn(v) == [pc |-> "done", outcome |-> Returned(v), inner |-> Returned(v)]

\* where control goes when update_wiki_page_safe raises e: smart falls back
\* to create_wiki_page on a not-found flavoured message and re-raises otherwise
AfterSafeRaise(e) ==
    IF op = "create_or_update_wiki_page_smart" /\ NotFoundFlavoured(e.msg)
    THEN [pc |-> "create", outcome |-> NoOutcome, inner |-> Raised(e)]
    ELSE [pc |-> "done", outcome |-> Raised(e), inner |-> Raised(e)]


\* variant: the body runs once before the index is tested
LoopHead_AtLeastOnce(att, n) ==
    IF att < n \/ att = 0
    THEN [pc |-> "fetch", outcome |-> NoOutcome, inner |-> NoOutcome]
    ELSE AfterSafeRaise(ExhaustedErr(n))

\* the for statement: the body runs while the index is below max_retries,
\* and the statement after the loop raises the exhausted-retries error
LoopHead(att, n) ==
    IF att < n
    THEN [pc |-> "fetch", outcome |-> NoOutcome, inner |-> NoOutcome]
    ELSE AfterSafeRaise(ExhaustedErr(n))

\* the except clause of the loop body, for exception e raised in attempt att
OnSafeException(e, att, n) ==
    IF ShouldRetry(e, att, n)
    THEN [att |-> att + 1, next |-> LoopHead(att + 1, n)]
    ELSE [att |-> att, next |-> AfterSafeRaise(e)]

InSafe == op \in {"update_wiki_page_safe", "create_or_update_wiki_page_smart"}

NoArgs ==
    [path |-> "/a", content |-> "", max_retries |-> 0,
     from_path |-> "/a", to_path |-> "/a", pages_data |-> <<>>]

\* locals: the outcome of the inner update_wiki_page_safe (smart), source_content
\* and target_page (move), results (batch), page (the object the last get_page
\* of an update returned)
NoLocal ==
    [inner |-> NoOutcome, source_content |-> "", target_page |-> NoneResp,
     results |-> <<>>, page |-> NoneResp]

StartUpdateSafe(p, c, n) ==
    /\ op = "idle"
    /\ op' = "update_wiki_page_safe"
    /\ args' = [NoArgs EXCEPT !.path = p, !.content = c, !.max_retries = n]
    /\ attempt' = 0
    /\ pc' = LoopHead(0, n).pc
    /\ outcome' = LoopHead(0, n).outcome
    /\ local' = [local EXCEPT !.inner = LoopHead(0, n).inner]
    /\ UNCHANGED <<remote, server, wiki, wiki0, calls, etag, touched, beaten, nominal>>

StartSmart(p, c) ==
    /\ op = "idle"
    /\ op' = "create_or_update_wiki_page_smart"
    /\ args' = [NoArgs EXCEPT !.path = p, !.content = c,
                              !.max_retries = DefaultMaxRetries]
    /\ attempt' = 0
    /\ pc' = "fetch"
    /\ UNCHANGED <<remote, server, wiki, wiki0, calls, etag, local, outcome, touched, beaten, nominal>>

\* self.wiki_client.get_page(...) and the extraction of the token
SafeFetch ==
    /\ InSafe /\ pc = "fetch"
    /\ \E a \in FetchAnswers(wiki, args.path) :
          /\ calls' = Append(calls, Call("get_page", "update_wiki_page_safe",
                                         args.path, NoVersion, "", ErrOf(a)))
          /\ nominal' = (nominal /\ a.regular)
          /\ IF a.ok
             THEN /\ etag' = AttemptETag(etag, a.resp)
                  /\ local' = [local EXCEPT !.page = a.resp]
                  /\ pc' = "write"
                  /\ UNCHANGED <<attempt, outcome>>
             ELSE LET h == OnSafeException(Err(a.msg, Len(calls) + 1),
                                           attempt, args.max_retries)
                  IN  /\ attempt' = h.att
                      /\ pc' = h.next.pc
                      /\ outcome' = h.next.outcome
                      /\ local' = [local EXCEPT !.inner = h.next.inner]
                      /\ UNCHANGED etag
    /\ touched' = FALSE
    /\ UNCHANGED <<remote, server, wiki, wiki0, op, args, beaten>>

\* self.wiki_client.create_or_update_page(..., version=etag)
SafeWrite ==
    /\ InSafe /\ pc = "write"
    /\ \E a \in WriteAnswers(wiki, args.path, args.content, etag) :
          /\ calls' = Append(calls, Call("create_or_update_page", "update_wiki_page_safe",
                                         args.path, etag, args.content, ErrOf(a)))
          /\ nominal' = (nominal /\ a.regular)
          /\ wiki' = a.wiki
          /\ IF a.ok
             THEN /\ pc' = AfterSafeReturn(a.resp).pc
                  /\ outcome' = AfterSafeReturn(a.resp).outcome
                  /\ local' = [local EXCEPT !.inner = AfterSafeReturn(a.resp).inner]
                  /\ UNCHANGED attempt
             ELSE LET h == OnSafeException(Err(a.msg, Len(calls) + 1),
                                           attempt, args.max_retries)
                  IN  /\ attempt' = h.att
                      /\ pc' = h.next.pc
                      /\ outcome' = h.next.outcome
                      /\ local' = [local EXCEPT !.inner = h.next.inner]
    /\ beaten' = beaten + (IF touched THEN 1 ELSE 0)
    /\ touched' = FALSE
    /\ UNCHANGED <<remote, server, wiki0, op, args, etag>>

\* create_or_update_wiki_page_smart: the fallback create_wiki_page
SmartCreate ==
    /\ op = "create_or_update_wiki_page_smart" /\ pc = "create"
    /\ \E a \in WriteAnswers(wiki, args.path, args.content, NoVersion) :
          /\ calls' = Append(calls, Call("create_or_update_page", "create_wiki_page",
                                         args.path, NoVersion, args.content, ErrOf(a)))
          /\ nominal' = (nominal /\ a.regular)
          /\ wiki' = a.wiki
          /\ outcome' = IF a.ok THEN Returned(a.resp)
                        ELSE Raised(Err(a.msg, Len(calls) + 1))
    /\ pc' = "done"
    /\ UNCHANGED <<remote, server, wiki0, op, args, attempt, etag, local, touched, beaten>>

\* another writer edits the page between the fetch and the write of an attempt
ExternalWrite ==
    /\ op \in {"update_wiki_page", "update_wiki_page_safe",
               "create_or_update_wiki_page_smart"}
    /\ pc = "write" /\ ~touched
    /\ wiki[args.path].exists
    /\ wiki[args.path].version < MaxVersion - 1
    /\ wiki' = [wiki EXCEPT ![args.path] =
                   Page(ExtContent, wiki[args.path].version + 1)]
    /\ touched' = TRUE
    /\ UNCHANGED <<remote, server, wiki0, calls, op, pc, args, attempt, etag, local, outcome, beaten, nominal>>

----------------------------------------------------------------------------
\* update_wiki_page

\* variant: the attributes of the nested page are not probed
PlainETag_TopLevelOnly(page) ==
    IF Has(page, "eTag") THEN page.tags["eTag"]
    ELSE IF Has(page, "etag") THEN page.tags["etag"]
    ELSE IF Has(page, "e_tag") THEN page.tags["e_tag"]
    ELSE IF Has(page, "_etag") THEN page.tags["_etag"]
    ELSE NoVersion

\* etag = None and the hasattr chain of update_wiki_page
PlainETag(page) ==
    IF Has(page, "eTag") THEN page.tags["eTag"]
    ELSE IF Has(page, "etag") THEN page.tags["etag"]
    ELSE IF Has(page, "e_tag") THEN page.tags["e_tag"]
    ELSE IF Has(page, "_etag") THEN page.tags["_etag"]
    ELSE IF HasPage(page) /\ Has(page, "page.eTag") THEN page.tags["page.eTag"]
    ELSE IF HasPage(page) /\ Has(page, "page.etag") THEN page.tags["page.etag"]
    ELSE IF HasPage(page) /\ Has(page, "page.e_tag") THEN page.tags["page.e_tag"]
    ELSE NoVersion

InPlain == op = "update_wiki_page"

StartPlain(p, c) ==
    /\ op = "idle"
    /\ op' = "update_wiki_page"
    /\ args' = [NoArgs EXCEPT !.path = p, !.content = c]
    /\ pc' = "fetch"
    /\ UNCHANGED <<remote, server, wiki, wiki0, calls, attempt, etag, local, outcome,
                   touched, beaten, nominal>>

\* page = self.wiki_client.get_page(...) and the extraction of the token; an
\* exception leaves update_wiki_page
PlainFetch ==
    /\ InPlain /\ pc = "fetch"
    /\ \E a \in FetchAnswers(wiki, args.path) :
          /\ calls' = Append(calls, Call("get_page", "update_wiki_page",
                                         args.path, NoVersion, "", ErrOf(a)))
          /\ nominal' = (nominal /\ a.regular)
          /\ IF a.ok
             THEN /\ etag' = PlainETag(a.resp)
                  /\ local' = [local EXCEPT !.page = a.resp]
                  /\ pc' = "write"
                  /\ UNCHANGED outcome
             ELSE /\ pc' = "done"
                  /\ outcome' = Raised(Err(a.msg, Len(calls) + 1))
                  /\ UNCHANGED <<etag, local>>
    /\ touched' = FALSE
    /\ UNCHANGED <<remote, server, wiki, wiki0, op, args, attempt, beaten>>

\* return self.wiki_client.create_or_update_page(..., version=etag)
PlainWrite ==
    /\ InPlain /\ pc = "write"
    /\ \E a \in WriteAnswers(wiki, args.path, args.content, etag) :
          /\ calls' = Append(calls, Call("create_or_update_page", "update_wiki_page",
                                         args.path, etag, args.content, ErrOf(a)))
          /\ nominal' = (nominal /\ a.regular)
          /\ wiki' = a.wiki
          /\ outcome' = IF a.ok THEN Returned(a.resp)
                        ELSE Raised(Err(a.msg, Len(calls) + 1))
    /\ pc' = "done"
    /\ beaten' = beaten + (IF touched THEN 1 ELSE 0)
    /\ touched' = FALSE
    /\ UNCHANGED <<remote, server, wiki0, op, args, attempt, etag, local>>

----------------------------------------------------------------------------
\* move_wiki_page

\* variant: the content is dropped
ContentOrEmpty_AlwaysEmpty(c) == ""

\* source_page.page.content or ""
ContentOrEmpty(c) == IF c = NoContent \/ c = "" THEN "" ELSE c

\* not source_page or not source_page.page
SourceMissing(resp) == resp.kind = "None" \/ ~resp.page.exists

SourceNotFoundMsg(f) == <<"Source", "page", f, "not", "found">>

CreateFailedMsg(t, inner) ==
    <<"Failed", "to", "create", "page", "at", "target", "location", t, ":">> \o inner

MoveFailedMsg(f, t, inner) ==
    <<"Failed", "to", "move", "wiki", "page", "from", f, "to", t, ":">> \o inner

\* the outer except clause: every exception of the body is wrapped in a new one
MoveRaise(f, t, inner) == Raised(Err(MoveFailedMsg(f, t, inner), 0))

TargetInfo(resp) == [path |-> resp.page.path, url |-> resp.page.url]

\* variant: a failed delete is reported as a plain success
MovePartialResult_AsSuccess(f, t, target, inner) ==
    [status |-> "success",
     message |-> <<"Page", "successfully", "moved", "from", f, "to", t>>,
     from_path |-> f,
     to_path |-> t,
     target_page |-> TargetInfo(target)]

\* the value returned when the delete of the original fails
MovePartialResult(f, t, target, inner) ==
    [status |-> "partial_success",
     message |-> <<"Page", "moved", "to", t, "but", "failed", "to", "delete",
                   "original", "at", f, ":">> \o inner,
     from_path |-> f,
     to_path |-> t,
     target_page |-> TargetInfo(target),
     warning |-> <<"Original", "page", "at", f, "still", "exists", "and", "may",
                   "need", "manual", "deletion">>]

\* the value returned when all three steps succeeded
MoveSuccessResult(f, t, target) ==
    [status |-> "success",
     message |-> <<"Page", "successfully", "moved", "from", f, "to", t>>,
     from_path |-> f,
     to_path |-> t,
     target_page |-> TargetInfo(target)]

StartMove(f, t) ==
    /\ op = "idle"
    /\ op' = "move_wiki_page"
    /\ args' = [NoArgs EXCEPT !.from_path = f, !.to_path = t]
    /\ pc' = "m_fetch"
    /\ UNCHANGED <<remote, server, wiki, wiki0, calls, attempt, etag, local, outcome, touched, beaten, nominal>>

\* variant: a missing source is treated as an empty page
MoveFetchNext_NoSourceCheck(a, f, t) ==
    IF ~a.ok
    THEN [pc |-> "done", outcome |-> MoveRaise(f, t, a.msg), content |-> ""]
    ELSE IF SourceMissing(a.resp)
    THEN [pc |-> "m_create", outcome |-> NoOutcome, content |-> ""]
    ELSE [pc |-> "m_create", outcome |-> NoOutcome,
          content |-> ContentOrEmpty(a.resp.page.content)]

\* step 1, after get_page answered a: the source check and source_content
MoveFetchNext(a, f, t) ==
    IF ~a.ok
    THEN [pc |-> "done", outcome |-> MoveRaise(f, t, a.msg), content |-> ""]
    ELSE IF SourceMissing(a.resp)
    THEN [pc |-> "done", outcome |-> MoveRaise(f, t, SourceNotFoundMsg(f)),
          content |-> ""]
    ELSE [pc |-> "m_create", outcome |-> NoOutcome,
          content |-> ContentOrEmpty(a.resp.page.content)]

\* variant: a failed create does not stop the move
MoveCreateNext_GoesOn(a, f, t) == [pc |-> "m_delete", outcome |-> NoOutcome]

\* step 2, after create_wiki_page answered a: the inner except clause
MoveCreateNext(a, f, t) ==
    IF a.ok
    THEN [pc |-> "m_delete", outcome |-> NoOutcome]
    ELSE [pc |-> "done", outcome |-> MoveRaise(f, t, CreateFailedMsg(t, a.msg))]

\* step 3, after delete_wiki_page answered a: success, or partial success
MoveDeleteNext(a, f, t, target) ==
    IF a.ok
    THEN Returned(MoveSuccessResult(f, t, target))
    ELSE Returned(MovePartialResult(f, t, target, a.msg))

\* step 1: get_page(from_path, include_content=True)
MoveFetch ==
    /\ op = "move_wiki_page" /\ pc = "m_fetch"
    /\ \E a \in GetPageAnswers(wiki, args.from_path) :
          LET nx == MoveFetchNext(a, args.from_path, args.to_path)
          IN  /\ calls' = Append(calls, Call("get_page", "move_wiki_page",
                                             args.from_path, NoVersion, "", ErrOf(a)))
              /\ nominal' = (nominal /\ a.regular)
              /\ pc' = nx.pc
              /\ outcome' = nx.outcome
              /\ local' = [local EXCEPT !.source_content = nx.content]
    /\ UNCHANGED <<remote, server, wiki, wiki0, op, args, attempt, etag, touched, beaten>>

\* step 2: create_wiki_page(to_path, source_content)
MoveCreate ==
    /\ op = "move_wiki_page" /\ pc = "m_create"
    /\ \E a \in WriteAnswers(wiki, args.to_path, local.source_content, NoVersion) :
          LET nx == MoveCreateNext(a, args.from_path, args.to_path)
          IN  /\ calls' = Append(calls, Call("create_or_update_page", "create_wiki_page",
                                             args.to_path, NoVersion,
                                             local.source_content, ErrOf(a)))
              /\ nominal' = (nominal /\ a.regular)
              /\ wiki' = a.wiki
              /\ pc' = nx.pc
              /\ outcome' = nx.outcome
              /\ local' = IF a.ok THEN [local EXCEPT !.target_page = a.resp] ELSE local
    /\ UNCHANGED <<remote, server, wiki0, op, args, attempt, etag, touched, beaten>>

\* step 3: delete_wiki_page(from_path)
MoveDelete ==
    /\ op = "move_wiki_page" /\ pc = "m_delete"
    /\ \E a \in DeleteAnswers(wiki, args.from_path) :
          /\ calls' = Append(calls, Call("delete_page", "delete_wiki_page",
                                         args.from_path, NoVersion, "", ErrOf(a)))
          /\ nominal' = (nominal /\ a.regular)
          /\ wiki' = a.wiki
          /\ outcome' = MoveDeleteNext(a, args.from_path, args.to_path,
                                       local.target_page)
    /\ pc' = "done"
    /\ UNCHANGED <<remote, server, wiki0, op, args, attempt, etag, local, touched, beaten>>

----------------------------------------------------------------------------
\* create_wiki_pages_batch

PageSpecs == [path : Paths, content : Contents]

BatchInputs == UNION { [1..k -> PageSpecs] : k \in 0..MaxBatch }

BatchSuccess(pd, result) == [path |-> pd.path, status |-> "success", result |-> result]

BatchError(pd, msg) == [path |-> pd.path, status |-> "error", error |-> msg]

\* variant: the loop ends at the first entry that failed
BatchHead_StopsOnError(results, pages) ==
    IF /\ Len(results) < Len(pages)
       /\ (results = <<>> \/ results[Len(results)].status = "success")
    THEN [pc |-> "b_create", outcome |-> NoOutcome]
    ELSE [pc |-> "done", outcome |-> Returned(results)]

\* the for statement over pages_data, and the return after it
BatchHead(results, pages) ==
    IF Len(results) < Len(pages)
    THEN [pc |-> "b_create", outcome |-> NoOutcome]
    ELSE [pc |-> "done", outcome |-> Returned(results)]

StartBatch(pages) ==
    /\ op = "idle"
    /\ op' = "create_wiki_pages_batch"
    /\ args' = [NoArgs EXCEPT !.pages_data = pages]
    /\ pc' = BatchHead(<<>>, pages).pc
    /\ outcome' = BatchHead(<<>>, pages).outcome
    /\ UNCHANGED <<remote, server, wiki, wiki0, calls, attempt, etag, local, touched, beaten, nominal>>

\* one turn of the loop: create_wiki_page for the next entry, outcome recorded
BatchCreate ==
    /\ op = "create_wiki_pages_batch" /\ pc = "b_create"
    /\ LET pd == args.pages_data[Len(local.results) + 1]
       IN  \E a \in WriteAnswers(wiki, pd.path, pd.content, NoVersion) :
             LET rs == Append(local.results,
                              IF a.ok THEN BatchSuccess(pd, a.resp)
                              ELSE BatchError(pd, a.msg))
             IN  /\ calls' = Append(calls, Call("create_or_update_page",
                                                "create_wiki_page", pd.path,
                                                NoVersion, pd.content, ErrOf(a)))
                 /\ nominal' = (nominal /\ a.regular)
                 /\ wiki' = a.wiki
                 /\ local' = [local EXCEPT !.results = rs]
                 /\ pc' = BatchHead(rs, args.pages_data).pc
                 /\ outcome' = BatchHead(rs, args.pages_data).outcome
    /\ UNCHANGED <<remote, server, wiki0, op, args, attempt, etag, touched, beaten>>

----------------------------------------------------------------------------

\* the parts of the state the wiki operations do not involve
NoRemote == [kind |-> "wiki"]

NoServer == [phase |-> "none"]

InitPages == { Page(c, 1) : c \in {"c1", NoContent} }

Init ==
    /\ wiki \in [Paths -> {Absent} \cup InitPages]
    /\ wiki0 = wiki
    /\ calls = <<>>
    /\ op = "idle"
    /\ pc = "idle"
    /\ args = NoArgs
    /\ attempt = 0
    /\ etag = NoVersion
    /\ local = NoLocal
    /\ outcome = NoOutcome
    /\ touched = FALSE
    /\ beaten = 0
    /\ nominal = TRUE
    /\ remote = NoRemote
    /\ server = NoServer

Next ==
    \/ \E p \in Paths, c \in Contents, n \in (-1)..MaxRetries : StartUpdateSafe(p, c, n)
    \/ \E p \in Paths, c \in Contents : StartSmart(p, c)
    \/ SafeFetch
    \/ SafeWrite
    \/ SmartCreate
    \/ ExternalWrite
    \/ \E f \in Paths, t \in Paths : StartMove(f, t)
    \/ MoveFetch
    \/ MoveCreate
    \/ MoveDelete
    \/ \E pages \in BatchInputs : StartBatch(pages)
    \/ BatchCreate

Spec == Init /\ [][Next]_vars

----------------------------------------------------------------------------
\* The parts of the state that belong to the wiki operations, at rest.

wikiVars == <<wiki, wiki0, attempt, etag, touched, beaten, nominal>>

WikiAtRest ==
    /\ wiki = [p \in Paths |-> Absent]
    /\ wiki0 = wiki
    /\ attempt = 0
    /\ etag = NoVersion
    /\ touched = FALSE
    /\ beaten = 0
    /\ nominal = TRUE

----------------------------------------------------------------------------
\* get_work_item_transitions

\* longest states list of a work item type
MaxStates == 3

\* longest transitions list of a work item type
MaxTransitions == 2

\* an attribute the object does not have (hasattr is False)
Missing == "<missing>"

StateNames == {"A", "B", "C"}

\* a state object: its name, or Missing when it has no name attribute
StateObjs == StateNames \cup {Missing}

\* transition objects: from / to / actions, each possibly not an attribute
TransitionObjs ==
    { [from |-> "A", to |-> "B", actions |-> <<"approve">>],
      [from |-> "A", to |-> "C", actions |-> Missing],
      [from |-> "B", to |-> "C", actions |-> <<>>],
      [from |-> "B", to |-> Missing, actions |-> <<>>],
      [from |-> Missing, to |-> "A", actions |-> <<>>] }

SeqsUpTo(S, n) == UNION { [1..k -> S] : k \in 0..n }

\* an attribute holding a list: absent, a list (None and [] are the empty
\* list, both falsy), or a truthy value that cannot be iterated
ListAttrs(S, n) ==
    { [kind |-> "missing", items |-> <<>>], [kind |-> "scalar", items |-> <<>>] }
    \cup { [kind |-> "list", items |-> q] : q \in SeqsUpTo(S, n) }

\* the objects get_work_item_type may return
TypeObjs ==
    [transitions : ListAttrs(TransitionObjs, MaxTransitions),
     states : ListAttrs(StateObjs, MaxStates)]

\* hasattr(obj, attr) and obj.attr
Truthy(attr) == attr.kind = "scalar" \/ (attr.kind = "list" /\ attr.items # <<>>)

NotIterableMsg == <<"object", "is", "not", "iterable">>

NoAttributeMsg == <<"object", "has", "no", "attribute", "name">>

NoneValue == "<None>"

Ok(v) == [ok |-> TRUE, value |-> v]

Fail(m) == [ok |-> FALSE, msg |-> m]


\* variant: the declared from state is not compared
RECURSIVE MatchingTransitions_AnyFrom(_, _)
MatchingTransitions_AnyFrom(ts, from_state) ==
    IF ts = <<>> THEN <<>>
    ELSE LET t == Head(ts)
         IN  <<[to |-> IF t.to = Missing THEN NoneValue ELSE t.to,
                actions |-> IF t.actions = Missing THEN <<>> ELSE t.actions]>>
             \o MatchingTransitions_AnyFrom(Tail(ts), from_state)

\* the comprehension over work_item_type_obj.transitions
RECURSIVE MatchingTransitions(_, _)
MatchingTransitions(ts, from_state) ==
    IF ts = <<>> THEN <<>>
    ELSE LET t == Head(ts)
             rest == MatchingTransitions(Tail(ts), from_state)
         IN  IF t.from # Missing /\ t.from = from_state
             THEN <<[to |-> IF t.to = Missing THEN NoneValue ELSE t.to,
                     actions |-> IF t.actions = Missing THEN <<>> ELSE t.actions]>>
                  \o rest
             ELSE rest

\* variant: the queried state is not left out
RECURSIVE OtherStates_All(_, _)
OtherStates_All(ss, from_state) ==
    IF ss = <<>> THEN Ok(<<>>)
    ELSE IF Head(ss) = Missing THEN Fail(NoAttributeMsg)
    ELSE LET rest == OtherStates_All(Tail(ss), from_state)
         IN  IF ~rest.ok THEN rest
             ELSE Ok(<<[to |-> Head(ss), actions |-> <<>>]>> \o rest.value)

\* the comprehension over work_item_type_obj.states; reading state.name of an
\* object without that attribute raises
RECURSIVE OtherStates(_, _)
OtherStates(ss, from_state) ==
    IF ss = <<>> THEN Ok(<<>>)
    ELSE IF Head(ss) = Missing THEN Fail(NoAttributeMsg)
    ELSE LET rest == OtherStates(Tail(ss), from_state)
         IN  IF ~rest.ok THEN rest
             ELSE IF Head(ss) # from_state
             THEN Ok(<<[to |-> Head(ss), actions |-> <<>>]>> \o rest.value)
             ELSE rest

\* the body of the try block after the lookup
ExtractTransitions(obj, from_state) ==
    IF Truthy(obj.transitions)
    THEN IF obj.transitions.kind = "scalar" THEN Fail(NotIterableMsg)
         ELSE Ok(MatchingTransitions(obj.transitions.items, from_state))
    ELSE IF Truthy(obj.states)
    THEN IF obj.states.kind = "scalar" THEN Fail(NotIterableMsg)
         ELSE OtherStates(obj.states.items, from_state)
    ELSE Ok(<<>>)

\* variant: the exception is passed on
TransitionsExcept_Reraise(m, src) == Raised(Err(m, src))

\* except Exception as e: return {"error": str(e), "transitions": []}
TransitionsExcept(m, src) == Returned([error |-> m, transitions |-> <<>>])

InTransitions == op = "get_work_item_transitions"

StartTransitions(from_state) ==
    /\ remote.kind = "type"
    /\ op = "idle"
    /\ op' = "get_work_item_transitions"
    /\ args' = [from_state |-> from_state]
    /\ pc' = "lookup"
    /\ UNCHANGED <<wikiVars, calls, local, outcome, remote, server>>

\* get_work_item_type(...) and the extraction, inside the try block
TransitionsLookup ==
    /\ InTransitions /\ pc = "lookup"
    /\ \/ \E m \in ErrMsgs :
            /\ calls' = Append(calls, Call("get_work_item_type",
                                           "get_work_item_transitions", "", NoVersion,
                                           "", m))
            /\ outcome' = TransitionsExcept(m, Len(calls) + 1)
       \/ /\ calls' = Append(calls, Call("get_work_item_type",
                                         "get_work_item_transitions", "", NoVersion,
                                         "", <<>>))
          /\ LET x == ExtractTransitions(remote.obj, args.from_state)
             IN  outcome' = IF x.ok THEN Returned(x.value)
                            ELSE TransitionsExcept(x.msg, 0)
    /\ pc' = "done"
    /\ UNCHANGED <<wikiVars, op, args, local, remote, server>>

InitMeta ==
    /\ WikiAtRest
    /\ calls = <<>>
    /\ op = "idle"
    /\ pc = "idle"
    /\ args = NoArgs
    /\ local = NoLocal
    /\ outcome = NoOutcome
    /\ remote \in [kind : {"type"}, obj : TypeObjs]
    /\ server = NoServer

NextMeta ==
    \/ \E f \in StateNames : StartTransitions(f)
    \/ TransitionsLookup

SpecMeta == InitMeta /\ [][NextMeta]_vars

-----------------------------------------------------------------------------
\* Text.  A str is the sequence of its characters.

UpperCase ==
    <<"A", "B", "C", "D", "E", "F", "G", "H", "I", "J", "K", "L", "M",
      "N", "O", "P", "Q", "R", "S", "T", "U", "V", "W", "X", "Y", "Z">>

LowerCase ==
    <<"a", "b", "c", "d", "e", "f", "g", "h", "i", "j", "k", "l", "m",
      "n", "o", "p", "q", "r", "s", "t", "u", "v", "w", "x", "y", "z">>

LowerChar(c) ==
    IF \E i \in 1..Len(UpperCase) : UpperCase[i] = c
    THEN LowerCase[CHOOSE i \in 1..Len(UpperCase) : UpperCase[i] = c]
    ELSE c

\* s.lower()
LowerStr(s) == [i \in 1..Len(s) |-> LowerChar(s[i])]

\* s.startswith(prefix)
StartsWith(s, prefix) ==
    Len(prefix) <= Len(s) /\ SubSeq(s, 1, Len(prefix)) = prefix

\* s.replace(old, new) for one-character old and new
ReplaceChar(s, old, new) ==
    [i \in 1..Len(s) |-> IF s[i] = old THEN new ELSE s[i]]

\* s.split(sep) for a one-character sep
RECURSIVE Split(_, _)
Split(s, sep) ==
    IF \A i \in 1..Len(s) : s[i] # sep THEN <<s>>
    ELSE LET k == CHOOSE i \in 1..Len(s) :
                      s[i] = sep /\ \A j \in 1..(i - 1) : s[j] # sep
         IN  <<SubSeq(s, 1, k - 1)>> \o Split(SubSeq(s, k + 1, Len(s)), sep)

RECURSIVE LStrip(_, _)
LStrip(s, ch) ==
    IF s # <<>> /\ Head(s) = ch THEN LStrip(Tail(s), ch) ELSE s

RECURSIVE RStrip(_, _)
RStrip(s, ch) ==
    IF s # <<>> /\ s[Len(s)] = ch THEN RStrip(SubSeq(s, 1, Len(s) - 1), ch) ELSE s

\* s.strip(ch)
Strip(s, ch) == RStrip(LStrip(s, ch), ch)

\* q[-1]
Last(q) == q[Len(q)]

\* None where a str is expected
NoText == <<"<None>">>

\* None where an object is expected
NoneObj == [kind |-> "None"]

\* None where a list is expected
NoneList == [kind |-> "None", items |-> <<>>]

\* hasattr(...) is False where a list is expected
MissingList == [kind |-> "missing", items |-> <<>>]

ListOf(q) == [kind |-> "list", items |-> q]

-----------------------------------------------------------------------------
\* The page listing of a wiki, and the lookups over it:
\* list_wiki_pages, search_wiki_pages, get_wiki_page_by_title.

\* longest page listing
MaxListed == 3

\* content[:200]
PreviewLen == 200

HomePath == <<"/", "H", "o", "m", "e">>

GuidePath == <<"/", "S", "e", "t", "u", "p", "-", "G", "u", "i", "d", "e">>

NotesPath == <<"/", "D", "o", "c", "s", "/", "s", "e", "t", "u", "p", "_", "n", "o", "t", "e", "s">>

ListedPaths == {HomePath, GuidePath, NotesPath}

SetupText == <<"S", "e", "t", "u", "p", " ", "f", "i", "r", "s", "t">>

PageTexts == {NoText, SetupText}

\* a page held by the service: its path, its url attribute (which the SDK
\* object may lack) and its content (None for a page without text)
RemotePages == [path : ListedPaths, url : {Missing, "url"}, content : PageTexts]

\* duplicate-free lists of pages, the url attribute lacking on the home page only
PageListings ==
    { q \in SeqsUpTo(RemotePages, MaxListed) :
        /\ \A i, j \in 1..Len(q) : q[i].path = q[j].path => i = j
        /\ \A i \in 1..Len(q) : (q[i].url = Missing) <=> (q[i].path = HomePath) }

\* failures of a remote call besides the regular answer
LookupErrMsgs == {<<"server", "error">>, <<"HTTP", "404">>}

\* list_wiki_pages: the dictionaries built from the get_pages_batch answer
PageInfo(pg) ==
    [path |-> pg.path,
     url |-> IF pg.url = Missing THEN "" ELSE pg.url,
     view_stats |-> <<>>]

ListWikiPages(pages) == [i \in 1..Len(pages) |-> PageInfo(pages[i])]

\* the answer of get_page(include_content=True) for a listed page
FullPage(pg) == Resp(<<>>, [path |-> pg.path, content |-> pg.content])

\* page.page.content[:200] + "..." if longer than 200, else the content
ContentPreview(content) ==
    IF content # NoText /\ Len(content) > PreviewLen
    THEN SubSeq(content, 1, PreviewLen) \o <<".", ".", ".">>
    ELSE content

\* search_term.lower() in page_info["path"].lower() or
\* (page.page.content and search_term.lower() in page.page.content.lower())
SearchMatches(search_term, info, page) ==
    \/ Contains(LowerStr(info.path), LowerStr(search_term))
    \/ /\ page.page.content # NoText
       /\ page.page.content # <<>>
       /\ Contains(LowerStr(page.page.content), LowerStr(search_term))

SearchEntry(info, page) ==
    [path |-> info.path, url |-> info.url,
     content_preview |-> ContentPreview(page.page.content)]

\* variant: the exception of an item's remote call is passed on
SkipFailedItem_Reraise(e) == [raise |-> TRUE, err |-> e]

\* except Exception: continue
SkipFailedItem(e) == [raise |-> FALSE, err |-> e]

SearchTerms == { <<"S", "E", "T", "U", "P">>, <<"h", "o", "m", "e">>, <<"x">> }

Titles ==
    { <<"s", "e", "t", "u", "p", " ", "g", "u", "i", "d", "e">>,
      <<"S", "E", "T", "U", "P", " ", "N", "O", "T", "E", "S", " ", "2">>,
      <<"o", "m">>,
      <<"s", "e", "t", "u", "p">>,
      <<"x">> }

NoLookupLocal == [pages |-> <<>>, i |-> 0, acc |-> <<>>]

InSearch == op = "search_wiki_pages"

InByTitle == op = "get_wiki_page_by_title"

StartSearch(search_term) ==
    /\ remote.kind = "pages"
    /\ op = "idle"
    /\ op' = "search_wiki_pages"
    /\ args' = [search_term |-> search_term]
    /\ pc' = "list"
    /\ local' = NoLookupLocal
    /\ UNCHANGED <<wikiVars, calls, outcome, remote, server>>

StartByTitle(title) ==
    /\ remote.kind = "pages"
    /\ op = "idle"
    /\ op' = "get_wiki_page_by_title"
    /\ args' = [title |-> title]
    /\ pc' = "list"
    /\ local' = NoLookupLocal
    /\ UNCHANGED <<wikiVars, calls, outcome, remote, server>>

\* pages = self.list_wiki_pages(...), outside any try block: what it raises
\* leaves the operation
ListingRaise(e) == [pc |-> "done", outcome |-> Raised(e)]

\* where search_wiki_pages stands with page i next and matching_pages acc
SearchHead(pages, i, acc) ==
    IF i > Len(pages)
    THEN [pc |-> "done", outcome |-> Returned(acc)]
    ELSE [pc |-> "fetch", outcome |-> NoOutcome]

\* page_title = page["path"].split("/")[-1].replace("-", " ").replace("_", " ")
PageTitle(path) ==
    ReplaceChar(ReplaceChar(Last(Split(path, "/")), "-", " "), "_", " ")

\* variant: only the query is looked for in the title
TitleMatches_OneWay(title, path) ==
    Contains(LowerStr(PageTitle(path)), LowerStr(title))

\* title.lower() in page_title.lower() or page_title.lower() in title.lower()
TitleMatches(title, path) ==
    \/ Contains(LowerStr(PageTitle(path)), LowerStr(title))
    \/ Contains(LowerStr(title), LowerStr(PageTitle(path)))

\* the next page, from index i on, that passes the title test (0: none)
NextMatch(pages, title, i) ==
    IF \E j \in i..Len(pages) : TitleMatches(title, pages[j].path)
    THEN CHOOSE j \in i..Len(pages) :
            /\ TitleMatches(title, pages[j].path)
            /\ \A k \in i..(j - 1) : ~TitleMatches(title, pages[k].path)
    ELSE 0

\* where get_wiki_page_by_title stands when the loop goes on from page i
TitleHead(pages, title, i) ==
    IF NextMatch(pages, title, i) = 0
    THEN [pc |-> "done", outcome |-> Returned(NoneObj), i |-> i]
    ELSE [pc |-> "fetch", outcome |-> NoOutcome, i |-> NextMatch(pages, title, i)]

\* wiki_client.get_pages_batch, called by list_wiki_pages
LookupList ==
    /\ (InSearch \/ InByTitle) /\ pc = "list"
    /\ \/ \E m \in LookupErrMsgs :
            /\ calls' = Append(calls, Call("get_pages_batch", op, "", NoVersion, "", m))
            /\ pc' = ListingRaise(Err(m, Len(calls) + 1)).pc
            /\ outcome' = ListingRaise(Err(m, Len(calls) + 1)).outcome
            /\ UNCHANGED local
       \/ LET pages == ListWikiPages(remote.pages)
              h == IF InSearch THEN SearchHead(pages, 1, <<>>)
                   ELSE TitleHead(pages, args.title, 1)
          IN  /\ calls' = Append(calls, Call("get_pages_batch", op, "", NoVersion, "", <<>>))
              /\ pc' = h.pc
              /\ outcome' = h.outcome
              /\ local' = [pages |-> pages, acc |-> <<>>,
                           i |-> IF InSearch THEN 1 ELSE h.i]
    /\ UNCHANGED <<wikiVars, op, args, remote, server>>

\* search_wiki_pages: the body of the loop for page local.i
SearchFetch ==
    /\ InSearch /\ pc = "fetch"
    /\ LET info == local.pages[local.i]
       IN  \/ \E m \in LookupErrMsgs :
                LET h == SkipFailedItem(Err(m, Len(calls) + 1))
                    n == SearchHead(local.pages, local.i + 1, local.acc)
                IN  /\ calls' = Append(calls, Call("get_page", op, info.path, NoVersion, "", m))
                    /\ pc' = IF h.raise THEN "done" ELSE n.pc
                    /\ outcome' = IF h.raise THEN Raised(h.err) ELSE n.outcome
                    /\ local' = [local EXCEPT !.i = local.i + 1]
           \/ LET page == FullPage(remote.pages[local.i])
                  acc == IF SearchMatches(args.search_term, info, page)
                         THEN Append(local.acc, SearchEntry(info, page))
                         ELSE local.acc
                  n == SearchHead(local.pages, local.i + 1, acc)
              IN  /\ calls' = Append(calls, Call("get_page", op, info.path, NoVersion, "", <<>>))
                  /\ pc' = n.pc
                  /\ outcome' = n.outcome
                  /\ local' = [local EXCEPT !.i = local.i + 1, !.acc = acc]
    /\ UNCHANGED <<wikiVars, op, args, remote, server>>

\* get_wiki_page_by_title: get_wiki_page for the matching page local.i
TitleFetch ==
    /\ InByTitle /\ pc = "fetch"
    /\ LET info == local.pages[local.i]
       IN  \/ \E m \in LookupErrMsgs :
                LET h == SkipFailedItem(Err(m, Len(calls) + 1))
                    n == TitleHead(local.pages, args.title, local.i + 1)
                IN  /\ calls' = Append(calls, Call("get_page", op, info.path, NoVersion, "", m))
                    /\ pc' = IF h.raise THEN "done" ELSE n.pc
                    /\ outcome' = IF h.raise THEN Raised(h.err) ELSE n.outcome
                    /\ local' = [local EXCEPT !.i = n.i]
           \/ /\ calls' = Append(calls, Call("get_page", op, info.path, NoVersion, "", <<>>))
              /\ pc' = "done"
              /\ outcome' = Returned(FullPage(remote.pages[local.i]))
              /\ UNCHANGED local
    /\ UNCHANGED <<wikiVars, op, args, remote, server>>

-----------------------------------------------------------------------------
\* list_all_wikis_in_organization

\* longest project list of the organization
MaxProjects == 2

ProjectNames == {"P1", "P2", "P3"}

WikiObj(n) == [id |-> n, name |-> n, url |-> "url", remote_url |-> "remote"]

\* the wikis of each project, as get_all_wikis answers
WikisOf(project) ==
    CASE project = "P1" -> <<WikiObj("w1"), WikiObj("w2")>>
      [] project = "P2" -> <<WikiObj("w3")>>
      [] OTHER -> <<>>

ProjectListings ==
    { q \in SeqsUpTo(ProjectNames, MaxProjects) :
        \A i, j \in 1..Len(q) : q[i] = q[j] => i = j }

WikiEntry(project, w) ==
    [project |-> project, id |-> w.id, name |-> w.name, url |-> w.url,
     remote_url |-> w.remote_url]

\* the entries the inner loop appends for one project
WikiEntries(project) ==
    [k \in 1..Len(WikisOf(project)) |-> WikiEntry(project, WikisOf(project)[k])]

InListAllWikis == op = "list_all_wikis_in_organization"

AllWikisHead(projects, i, acc) ==
    IF i > Len(projects)
    THEN [pc |-> "done", outcome |-> Returned(acc)]
    ELSE [pc |-> "fetch", outcome |-> NoOutcome]

StartListAllWikis ==
    /\ remote.kind = "org"
    /\ op = "idle"
    /\ op' = "list_all_wikis_in_organization"
    /\ args' = NoArgs
    /\ pc' = "list"
    /\ local' = NoLookupLocal
    /\ UNCHANGED <<wikiVars, calls, outcome, remote, server>>

\* projects = self.get_projects()
OrgProjects ==
    /\ InListAllWikis /\ pc = "list"
    /\ \/ \E m \in LookupErrMsgs :
            /\ calls' = Append(calls, Call("get_projects", op, "", NoVersion, "", m))
            /\ pc' = ListingRaise(Err(m, Len(calls) + 1)).pc
            /\ outcome' = ListingRaise(Err(m, Len(calls) + 1)).outcome
            /\ UNCHANGED local
       \/ LET h == AllWikisHead(remote.projects, 1, <<>>)
          IN  /\ calls' = Append(calls, Call("get_projects", op, "", NoVersion, "", <<>>))
              /\ pc' = h.pc
              /\ outcome' = h.outcome
              /\ local' = [pages |-> remote.projects, i |-> 1, acc |-> <<>>]
    /\ UNCHANGED <<wikiVars, op, args, remote, server>>

\* the body of the loop for project local.i: get_wikis(project.name)
OrgWikis ==
    /\ InListAllWikis /\ pc = "fetch"
    /\ LET project == local.pages[local.i]
       IN  \/ \E m \in LookupErrMsgs :
                LET h == SkipFailedItem(Err(m, Len(calls) + 1))
                    n == AllWikisHead(local.pages, local.i + 1, local.acc)
                IN  /\ calls' = Append(calls, Call("get_all_wikis", op, project, NoVersion, "", m))
                    /\ pc' = IF h.raise THEN "done" ELSE n.pc
                    /\ outcome' = IF h.raise THEN Raised(h.err) ELSE n.outcome
                    /\ local' = [local EXCEPT !.i = local.i + 1]
           \/ LET acc == local.acc \o WikiEntries(project)
                  n == AllWikisHead(local.pages, local.i + 1, acc)
              IN  /\ calls' = Append(calls, Call("get_all_wikis", op, project, NoVersion, "", <<>>))
                  /\ pc' = n.pc
                  /\ outcome' = n.outcome
                  /\ local' = [local EXCEPT !.i = local.i + 1, !.acc = acc]
    /\ UNCHANGED <<wikiVars, op, args, remote, server>>

-----------------------------------------------------------------------------
\* get_work_item, with the history of expand="All"

\* longest update list of a work item
MaxUpdates == 2

Reviser == [id |-> "u1", display_name |-> "User", unique_name |-> "user@org"]

RelationObj == [rel |-> "Related", url |-> "url", attributes |-> "attrs"]

\* update.relations: absent, None, or an object with added / removed / updated,
\* each a list, None or absent
UpdateRelations ==
    { [kind |-> "missing"], NoneObj,
      [kind |-> "obj", added |-> ListOf(<<RelationObj>>), removed |-> ListOf(<<>>),
       updated |-> MissingList],
      [kind |-> "obj", added |-> NoneList, removed |-> ListOf(<<>>),
       updated |-> ListOf(<<>>)] }

\* the update objects of get_updates; one lacks the id attribute
UpdateObjs ==
    { [id |-> "1", rev |-> 1, revised_by |-> Reviser, revised_date |-> "d1",
       fields |-> "f1", relations |-> r] : r \in UpdateRelations }
    \cup { [id |-> "2", rev |-> 2, revised_by |-> NoneObj, revised_date |-> NoneValue,
            fields |-> Missing, relations |-> [kind |-> "missing"]],
           [id |-> Missing, rev |-> 3, revised_by |-> NoneObj, revised_date |-> NoneValue,
            fields |-> Missing, relations |-> [kind |-> "missing"]] }

\* what get_updates answers: None, a str, a non-iterable object, or a list
UpdateAnswers ==
    { [kind |-> "None", items |-> <<>>], [kind |-> "str", items |-> <<>>],
      [kind |-> "scalar", items |-> <<>>] }
    \cup { [kind |-> "list", items |-> q] : q \in SeqsUpTo(UpdateObjs, MaxUpdates) }

WorkItems ==
    [id : {7}, url : {"url"}, fields : {"fields"},
     relations : {NoneList, ListOf(<<>>), ListOf(<<RelationObj>>)}]

ExpandAll == <<"A", "l", "l">>

ExpandRelations == <<"R", "e", "l", "a", "t", "i", "o", "n", "s">>

Expands == {NoText, <<>>, ExpandAll, ExpandRelations}

\* [{"rel": r.rel, "url": r.url} for r in update.relations.<part>] if ... else []
RelationPart(relations, part) ==
    IF relations.kind = "None" \/ relations[part].kind = "missing" THEN Ok(<<>>)
    ELSE IF relations[part].kind = "None" THEN Fail(NotIterableMsg)
    ELSE Ok([k \in 1..Len(relations[part].items) |->
                [rel |-> relations[part].items[k].rel,
                 url |-> relations[part].items[k].url]])

\* the "relations" entry of a history element
HistoryRelations(u) ==
    IF u.relations.kind = "missing" THEN Ok(NoneObj)
    ELSE LET a == RelationPart(u.relations, "added")
             r == RelationPart(u.relations, "removed")
             d == RelationPart(u.relations, "updated")
         IN  IF ~a.ok THEN a
             ELSE IF ~r.ok THEN r
             ELSE IF ~d.ok THEN d
             ELSE Ok([added |-> a.value, removed |-> r.value, updated |-> d.value])

\* revised_date.isoformat()
Isoformat(d) == [iso |-> d]

\* one element of result["history"]
HistoryEntry(u) ==
    IF u.id = Missing THEN Fail(NoAttributeMsg)
    ELSE LET rel == HistoryRelations(u)
         IN  IF ~rel.ok THEN rel
             ELSE Ok([id |-> u.id, rev |-> u.rev,
                      revised_by |-> IF u.revised_by = NoneObj THEN NoneObj
                                     ELSE [id |-> u.revised_by.id,
                                           display_name |-> u.revised_by.display_name,
                                           unique_name |-> u.revised_by.unique_name],
                      revised_date |-> IF u.revised_date = NoneValue THEN NoneObj
                                       ELSE Isoformat(u.revised_date),
                      fields |-> IF u.fields = Missing THEN "{}" ELSE u.fields,
                      relations |-> rel.value])

RECURSIVE HistoryEntries(_)
HistoryEntries(us) ==
    IF us = <<>> THEN Ok(<<>>)
    ELSE LET e == HistoryEntry(Head(us))
         IN  IF ~e.ok THEN e
             ELSE LET rest == HistoryEntries(Tail(us))
                  IN  IF ~rest.ok THEN rest ELSE Ok(<<e.value>> \o rest.value)

IsTypeError(m) == m = NotIterableMsg

\* the try block once get_updates has answered
HistoryOf(updates) ==
    IF updates.kind = "list"
    THEN LET h == HistoryEntries(updates.items)
         IN  IF ~h.ok /\ IsTypeError(h.msg) THEN Ok(<<>>) ELSE h
    ELSE Ok(<<>>)

HistoryErrorText(m) == <<"Failed", "to", "retrieve", "history:">> \o m

\* variant: the exception is passed on
HistoryExcept_Reraise(result, e) == Raised(e)

\* except Exception as e: result["history_error"] = ...; then return result
HistoryExcept(result, e) ==
    Returned(result @@ [history_error |-> HistoryErrorText(e.msg)])

\* the result before the history is added
ItemResult(item) ==
    IF item.relations.kind = "list" /\ item.relations.items # <<>>
    THEN [id |-> item.id, url |-> item.url, fields |-> item.fields,
          relations |-> [k \in 1..Len(item.relations.items) |->
                           [rel |-> item.relations.items[k].rel,
                            url |-> item.relations.items[k].url,
                            attributes |-> item.relations.items[k].attributes]]]
    ELSE [id |-> item.id, url |-> item.url, fields |-> item.fields]

\* expand and "All" in expand
WantsHistory(expand) ==
    expand # NoText /\ expand # <<>> /\ Contains(expand, ExpandAll)

InGetWorkItem == op = "get_work_item"

StartGetWorkItem(expand) ==
    /\ remote.kind = "item"
    /\ op = "idle"
    /\ op' = "get_work_item"
    /\ args' = [expand |-> expand]
    /\ pc' = "get"
    /\ local' = NoLookupLocal
    /\ UNCHANGED <<wikiVars, calls, outcome, remote, server>>

\* work_item_tracking_client.get_work_item(...) and the result dictionary
GetWorkItemFetch ==
    /\ InGetWorkItem /\ pc = "get"
    /\ \/ \E m \in LookupErrMsgs :
            /\ calls' = Append(calls, Call("get_work_item", op, "", NoVersion, "", m))
            /\ pc' = "done"
            /\ outcome' = Raised(Err(m, Len(calls) + 1))
            /\ UNCHANGED local
       \/ /\ calls' = Append(calls, Call("get_work_item", op, "", NoVersion, "", <<>>))
          /\ local' = [local EXCEPT !.acc = ItemResult(remote.item)]
          /\ IF WantsHistory(args.expand)
             THEN pc' = "history" /\ outcome' = NoOutcome
             ELSE pc' = "done" /\ outcome' = Returned(ItemResult(remote.item))
    /\ UNCHANGED <<wikiVars, op, args, remote, server>>

\* get_updates(...) and the history, inside the try block
GetWorkItemHistory ==
    /\ InGetWorkItem /\ pc = "history"
    /\ \/ \E m \in LookupErrMsgs :
            /\ calls' = Append(calls, Call("get_updates", op, "", NoVersion, "", m))
            /\ outcome' = HistoryExcept(local.acc, Err(m, Len(calls) + 1))
       \/ /\ calls' = Append(calls, Call("get_updates", op, "", NoVersion, "", <<>>))
          /\ LET h == HistoryOf(remote.updates)
             IN  outcome' = IF h.ok
                            THEN Returned(local.acc @@ [history |-> h.value])
                            ELSE HistoryExcept(local.acc, Err(h.msg, 0))
    /\ pc' = "done"
    /\ UNCHANGED <<wikiVars, op, args, local, remote, server>>

-----------------------------------------------------------------------------
\* The lookups as a system: one call against one remote.

LookupRemotes ==
    { [kind |-> "pages", pages |-> q] : q \in PageListings }
    \cup { [kind |-> "org", projects |-> q] : q \in ProjectListings }
    \cup { [kind |-> "item", item |-> w, updates |-> u] : w \in WorkItems, u \in UpdateAnswers }

InitLookup ==
    /\ WikiAtRest
    /\ calls = <<>>
    /\ op = "idle"
    /\ pc = "idle"
    /\ args = NoArgs
    /\ local = NoLocal
    /\ outcome = NoOutcome
    /\ remote \in LookupRemotes
    /\ server = NoServer

NextLookup ==
    \/ \E t \in SearchTerms : StartSearch(t)
    \/ \E t \in Titles : StartByTitle(t)
    \/ LookupList
    \/ SearchFetch
    \/ TitleFetch
    \/ StartListAllWikis
    \/ OrgProjects
    \/ OrgWikis
    \/ \E e \in Expands : StartGetWorkItem(e)
    \/ GetWorkItemFetch
    \/ GetWorkItemHistory

SpecLookup == InitLookup /\ [][NextLookup]_vars

-----------------------------------------------------------------------------
\* get_wiki_page_tree and get_wiki_page_suggestions: views of the page listing.

\* longest page listing given to get_wiki_page_suggestions
MaxSuggested == 12

\* suggestions[:10]
SuggestionCap == 10

TreePaths ==
    { <<"a", "/", "b">>, <<"a", "/", "c">>, <<"d">>, <<"/", "a">>,
      <<"/", "d", "/", "b", "/">>, <<"/", "a", "/", "b", "/", "c">> }

HomeBase == <<"H", "o", "m", "e">>

HomeSetupBase == <<"H", "o", "m", "e", "/", "S", "e", "t", "u", "p">>

GuidesSetupBase == <<"G", "u", "i", "d", "e", "s", "/", "S", "e", "t", "u", "p">>

DocsHomeBase == <<"D", "o", "c", "s", "/", "H", "o", "m", "e">>

SuggestBases == {HomeBase, HomeSetupBase, GuidesSetupBase, DocsHomeBase}

Digits == <<"0", "1", "2", "3", "4", "5", "6", "7", "8", "9">>

\* the page listed at position k: a page of the pattern, or a sub-page of one
PathAt(pattern, k) ==
    IF k <= Len(pattern) THEN pattern[k]
    ELSE pattern[((k - 1) % Len(pattern)) + 1]
           \o <<"/", "p", Digits[(k \div 10) + 1], Digits[(k % 10) + 1]>>

ViewPage(path) == [path |-> path, url |-> "url", content |-> NoText]

\* page listings without a repeated page
TreeListings ==
    { [i \in 1..Len(q) |-> ViewPage(q[i])] :
        q \in { r \in SeqsUpTo(TreePaths, MaxListed) :
                  \A i, j \in 1..Len(r) :
                     Strip(r[i], "/") = Strip(r[j], "/") => i = j } }

SuggestPatterns ==
    { q \in SeqsUpTo(SuggestBases, 3) :
        q # <<>> /\ \A i, j \in 1..Len(q) : q[i] = q[j] => i = j }

SuggestListings ==
    { [k \in 1..n |-> ViewPage(PathAt(q, k))] : q \in SuggestPatterns, n \in 0..MaxSuggested }

PartialInputs ==
    { <<"S", "e", "t", "u", "p">>, <<"h", "o", "m", "e">>, <<"G", "u">>, <<"p">>,
      <<"x">>, <<>> }

EmptyDict == <<>>

\* the body of the loop over path_parts, from the level current_level on
RECURSIVE TreeInsert_InfoEverywhere(_, _, _)
TreeInsert_InfoEverywhere(level, parts, page) ==
    LET part == Head(parts)
        node == IF part \in DOMAIN level THEN level[part]
                ELSE [children |-> EmptyDict, info |-> NoneObj]
        kids == IF Len(parts) = 1 THEN node.children
                ELSE TreeInsert_InfoEverywhere(node.children, Tail(parts), page)
    IN  [k \in DOMAIN level \cup {part} |->
            IF k = part THEN [children |-> kids, info |-> page] ELSE level[k]]

\* the body of the loop over path_parts, from the level current_level on
RECURSIVE TreeInsert(_, _, _)
TreeInsert(level, parts, page) ==
    LET part == Head(parts)
        node == IF part \in DOMAIN level THEN level[part]
                ELSE [children |-> EmptyDict, info |-> NoneObj]
        info == IF Len(parts) = 1 THEN page ELSE node.info
        kids == IF Len(parts) = 1 THEN node.children
                ELSE TreeInsert(node.children, Tail(parts), page)
    IN  [k \in DOMAIN level \cup {part} |->
            IF k = part THEN [children |-> kids, info |-> info] ELSE level[k]]

\* the loop over pages
RECURSIVE BuildTree(_, _)
BuildTree(pages, tree) ==
    IF pages = <<>> THEN tree
    ELSE BuildTree(Tail(pages),
                   TreeInsert(tree, Split(Strip(Head(pages).path, "/"), "/"), Head(pages)))

\* any(part.startswith(input_lower) for part in path_lower.split("/"))
AnyPartStartsWith(path_lower, input_lower) ==
    \E k \in 1..Len(Split(path_lower, "/")) :
        StartsWith(Split(path_lower, "/")[k], input_lower)


\* variant: the test on the parts of the path comes first
MatchScore_PartsFirst(path, partial_input) ==
    LET path_lower == LowerStr(path)
        input_lower == LowerStr(partial_input)
    IN  IF AnyPartStartsWith(path_lower, input_lower) THEN 25
        ELSE IF StartsWith(path_lower, input_lower) THEN 100
        ELSE IF Contains(path_lower, input_lower) THEN 50
        ELSE 0

\* variant: the substring test comes first
MatchScore_SubstringFirst(path, partial_input) ==
    LET path_lower == LowerStr(path)
        input_lower == LowerStr(partial_input)
    IN  IF Contains(path_lower, input_lower) THEN 50
        ELSE IF StartsWith(path_lower, input_lower) THEN 100
        ELSE IF AnyPartStartsWith(path_lower, input_lower) THEN 25
        ELSE 0

\* the score of one page
MatchScore(path, partial_input) ==
    LET path_lower == LowerStr(path)
        input_lower == LowerStr(partial_input)
    IN  IF StartsWith(path_lower, input_lower) THEN 100
        ELSE IF Contains(path_lower, input_lower) THEN 50
        ELSE IF AnyPartStartsWith(path_lower, input_lower) THEN 25
        ELSE 0

\* the loop building suggestions: pages with a positive score, in list order
RECURSIVE Scored(_, _)
Scored(pages, partial_input) ==
    IF pages = <<>> THEN <<>>
    ELSE LET page == Head(pages)
             score == MatchScore(page.path, partial_input)
             rest == Scored(Tail(pages), partial_input)
         IN  IF score > 0
             THEN <<[path |-> page.path, url |-> page.url, view_stats |-> page.view_stats,
                     match_score |-> score]>> \o rest
             ELSE rest

\* variant: an entry goes before the entries of the same score
InsertByScore_TiesFirst(sorted, s) ==
    LET before == SelectSeq(sorted, LAMBDA t : t.match_score > s.match_score)
        after == SelectSeq(sorted, LAMBDA t : t.match_score <= s.match_score)
    IN  before \o <<s>> \o after

\* one step of the stable descending sort: s goes after every entry whose
\* score is not smaller
InsertByScore(sorted, s) ==
    LET before == SelectSeq(sorted, LAMBDA t : t.match_score >= s.match_score)
        after == SelectSeq(sorted, LAMBDA t : t.match_score < s.match_score)
    IN  before \o <<s>> \o after

\* suggestions.sort(key=lambda x: x["match_score"], reverse=True)
RECURSIVE SortByScore(_, _)
SortByScore(suggestions, sorted) ==
    IF suggestions = <<>> THEN sorted
    ELSE SortByScore(Tail(suggestions), InsertByScore(sorted, Head(suggestions)))

\* suggestions[:10]
Top(suggestions) ==
    SubSeq(suggestions, 1, IF Len(suggestions) < SuggestionCap THEN Len(suggestions)
                           ELSE SuggestionCap)

InTree == op = "get_wiki_page_tree"

InSuggest == op = "get_wiki_page_suggestions"

StartTree ==
    /\ remote.kind = "pages"
    /\ op = "idle"
    /\ op' = "get_wiki_page_tree"
    /\ args' = NoArgs
    /\ pc' = "list"
    /\ local' = NoLookupLocal
    /\ UNCHANGED <<wikiVars, calls, outcome, remote, server>>

StartSuggest(partial_input) ==
    /\ remote.kind = "pages"
    /\ op = "idle"
    /\ op' = "get_wiki_page_suggestions"
    /\ args' = [partial_input |-> partial_input]
    /\ pc' = "list"
    /\ local' = NoLookupLocal
    /\ UNCHANGED <<wikiVars, calls, outcome, remote, server>>

\* get_wiki_page_tree: the listing and the tree built from it
TreeList ==
    /\ InTree /\ pc = "list"
    /\ \/ \E m \in LookupErrMsgs :
            /\ calls' = Append(calls, Call("get_pages_batch", op, "", NoVersion, "", m))
            /\ outcome' = ListingRaise(Err(m, Len(calls) + 1)).outcome
            /\ UNCHANGED local
       \/ LET pages == ListWikiPages(remote.pages)
          IN  /\ calls' = Append(calls, Call("get_pages_batch", op, "", NoVersion, "", <<>>))
              /\ outcome' = Returned(BuildTree(pages, EmptyDict))
              /\ local' = [local EXCEPT !.pages = pages]
    /\ pc' = "done"
    /\ UNCHANGED <<wikiVars, op, args, remote, server>>

\* get_wiki_page_suggestions: the listing, the scores, the sort and the cut
SuggestList ==
    /\ InSuggest /\ pc = "list"
    /\ \/ \E m \in LookupErrMsgs :
            /\ calls' = Append(calls, Call("get_pages_batch", op, "", NoVersion, "", m))
            /\ outcome' = ListingRaise(Err(m, Len(calls) + 1)).outcome
            /\ UNCHANGED local
       \/ LET pages == ListWikiPages(remote.pages)
          IN  /\ calls' = Append(calls, Call("get_pages_batch", op, "", NoVersion, "", <<>>))
              /\ outcome' = Returned(Top(SortByScore(Scored(pages, args.partial_input), <<>>)))
              /\ local' = [local EXCEPT !.pages = pages]
    /\ pc' = "done"
    /\ UNCHANGED <<wikiVars, op, args, remote, server>>

InitViews ==
    /\ WikiAtRest
    /\ calls = <<>>
    /\ op = "idle"
    /\ pc = "idle"
    /\ args = NoArgs
    /\ local = NoLocal
    /\ outcome = NoOutcome
    /\ remote \in { [kind |-> "pages", pages |-> q] : q \in TreeListings \cup SuggestListings }
    /\ server = NoServer

NextViews ==
    \/ StartTree
    \/ \E i \in PartialInputs : StartSuggest(i)
    \/ TreeList
    \/ SuggestList

SpecViews == InitViews /\ [][NextViews]_vars

-----------------------------------------------------------------------------
\* MCPAzureDevOpsServer (src/mcp_azure_devops/server.py) and the construction
\* of AzureDevOpsClient.

\* most tool calls served in one run
MaxCalls == 2

OrgUrl == "https://dev.azure.com/org"

\* os.getenv of AZURE_DEVOPS_ORG_URL and AZURE_DEVOPS_PAT: unset, empty or set
Envs == [url : {NoneValue, "", OrgUrl}, pat : {NoneValue, "", "secret"}]

\* variant: only an unset variable counts
Falsy_NoneOnly(x) == x = NoneValue

\* not x, for x None or a str
Falsy(x) == x = NoneValue \/ x = ""

ConfigErrorMsg ==
    <<"AZURE_DEVOPS_ORG_URL", "and", "AZURE_DEVOPS_PAT", "environment", "variables",
      "must", "be", "set.">>

ConnectionErrMsg == <<"invalid", "base", "url">>

\* what Connection(base_url=..., creds=...) does
ConnectionAnswers == {<<>>, ConnectionErrMsg}

Client(env) ==
    [org_url |-> env.url, pat |-> env.pat, project_context |-> NoneValue,
     connection |-> env.url]

\* AzureDevOpsClient.__init__: the exception it raises or the client it builds,
\* and the constructors it called
NewClient(env, conn) ==
    IF Falsy(env.url) \/ Falsy(env.pat)
    THEN [ok |-> FALSE, msg |-> ConfigErrorMsg, client |-> NoneObj, calls |-> <<>>]
    ELSE IF conn # <<>>
    THEN [ok |-> FALSE, msg |-> conn, client |-> NoneObj,
          calls |-> <<Call("Connection", "__init__", "", NoVersion, "", conn)>>]
    ELSE [ok |-> TRUE, msg |-> <<>>, client |-> Client(env),
          calls |-> <<Call("Connection", "__init__", "", NoVersion, "", <<>>)>>]

\* MCPAzureDevOpsServer.__init__
NewServer(env) ==
    [phase |-> "new", env |-> env, client |-> NoneObj, tools_registered |-> FALSE,
     served |-> 0, failed |-> FALSE]

\* _validate_environment
ValidateEnvironment(env) == ~Falsy(env.url) /\ ~Falsy(env.pat)

\* the names the dispatch of _execute_tool knows (the names of self.tools)
ToolNames ==
    { "server_health_check", "list_tools", "get_tool_documentation",
      "create_work_item", "get_work_item", "update_work_item", "delete_work_item",
      "search_work_items", "get_work_item_comments", "get_work_item_types",
      "get_work_item_states", "get_work_item_fields", "get_work_item_transitions",
      "create_wiki_page", "get_wiki_page", "update_wiki_page", "delete_wiki_page",
      "list_wiki_pages", "get_wikis", "create_wiki", "update_wiki_page_safe",
      "create_or_update_wiki_page_smart", "search_wiki_pages", "get_wiki_page_tree",
      "find_wiki_by_name", "get_wiki_page_by_title", "list_all_wikis_in_organization",
      "get_recent_wiki_pages", "get_wiki_page_suggestions", "create_wiki_pages_batch",
      "move_wiki_page", "list_repositories", "list_files", "get_file_content",
      "set_project_context", "clear_project_context", "get_projects" }

\* the parameters without a default of the client method a tool calls
Required(name) ==
    CASE name = "create_work_item" ->
             {"project", "work_item_type", "title", "description"}
      [] name = "get_work_item" ->
             {"work_item_id"}
      [] name = "update_work_item" ->
             {"work_item_id", "updates"}
      [] name = "delete_work_item" ->
             {"work_item_id"}
      [] name = "search_work_items" ->
             {"project", "wiql_query"}
      [] name = "get_work_item_comments" ->
             {"work_item_id"}
      [] name = "get_work_item_types" ->
             {"project"}
      [] name = "get_work_item_states" ->
             {"project", "work_item_type"}
      [] name = "get_work_item_fields" ->
             {"project"}
      [] name = "get_work_item_transitions" ->
             {"project", "work_item_type", "from_state"}
      [] name = "create_wiki_page" ->
             {"project", "wiki_identifier", "path", "content"}
      [] name = "get_wiki_page" ->
             {"project", "wiki_identifier", "path"}
      [] name = "update_wiki_page" ->
             {"project", "wiki_identifier", "path", "content"}
      [] name = "delete_wiki_page" ->
             {"project", "wiki_identifier", "path"}
      [] name = "list_wiki_pages" ->
             {"project", "wiki_identifier"}
      [] name = "get_wikis" ->
             {"project"}
      [] name = "create_wiki" ->
             {"project", "name"}
      [] name = "update_wiki_page_safe" ->
             {"project", "wiki_identifier", "path", "content"}
      [] name = "create_or_update_wiki_page_smart" ->
             {"project", "wiki_identifier", "path", "content"}
      [] name = "search_wiki_pages" ->
             {"project", "wiki_identifier", "search_term"}
      [] name = "get_wiki_page_tree" ->
             {"project", "wiki_identifier"}
      [] name = "find_wiki_by_name" ->
             {"project", "partial_name"}
      [] name = "get_wiki_page_by_title" ->
             {"project", "wiki_identifier", "title"}
      [] name = "get_recent_wiki_pages" ->
             {"project", "wiki_identifier"}
      [] name = "get_wiki_page_suggestions" ->
             {"project", "wiki_identifier", "partial_input"}
      [] name = "create_wiki_pages_batch" ->
             {"project", "wiki_identifier", "pages_data"}
      [] name = "move_wiki_page" ->
             {"project", "wiki_identifier", "from_path", "to_path"}
      [] name = "list_repositories" ->
             {"project"}
      [] name = "list_files" ->
             {"project", "repository_id", "path"}
      [] name = "get_file_content" ->
             {"project", "repository_id", "path"}
      [] name = "set_project_context" ->
             {"project"}
      [] OTHER -> {}

\* the parameters with a default
Optional(name) ==
    CASE name = "create_work_item" ->
             {"custom_fields", "relations", "markdown_fields"}
      [] name = "get_work_item" ->
             {"expand"}
      [] name = "update_work_item" ->
             {"relations", "markdown_fields"}
      [] name = "get_work_item_comments" ->
             {"project", "top", "continuation_token", "include_deleted", "expand", "order"}
      [] name = "update_wiki_page_safe" ->
             {"max_retries"}
      [] name = "get_recent_wiki_pages" ->
             {"limit"}
      [] OTHER -> {}

\* names no tool has
UnknownNames == {"no_such_tool", "Get_Projects", ""}

CallNames == ToolNames \cup UnknownNames

\* tools whose client method is called without arguments
NoArgumentTools == {"list_all_wikis_in_organization", "clear_project_context", "get_projects"}

\* tools that read attributes of, or iterate, what the client method returned
ReadingTools ==
    { "create_work_item", "update_work_item", "delete_work_item", "get_work_item_types",
      "create_wiki_page", "get_wiki_page", "update_wiki_page", "get_wikis", "create_wiki",
      "update_wiki_page_safe", "create_or_update_wiki_page_smart", "get_projects" }

\* an arguments mapping: a set of <<key, value>> pairs, one per key
Keys(arguments) == { kv[1] : kv \in arguments }

\* arguments.get(key)
Get(arguments, key) ==
    IF key \in Keys(arguments)
    THEN (CHOOSE kv \in arguments : kv[1] = key)[2]
    ELSE NoneValue

\* method(**arguments) binds: every required parameter, no unknown keyword
Binds(name, arguments) ==
    /\ Required(name) \subseteq Keys(arguments)
    /\ Keys(arguments) \subseteq Required(name) \cup Optional(name)

BadArgumentsMsg == <<"unexpected", "or", "missing", "keyword", "argument">>

\* the arguments mappings tried for a tool
ArgumentsFor(name) ==
    { {}, { <<k, "v">> : k \in Required(name) },
      { <<k, "v">> : k \in Required(name) \cup {"bogus"} },
      {<<"project", "P1">>}, {<<"project", "P2">>},
      {<<"tool_name", "get_projects">>}, {<<"tool_name", "nope">>} }

\* what the client method does once it runs: returns an object, returns None,
\* or raises
Answers ==
    { [kind |-> "value", msg |-> <<>>], [kind |-> "None", msg |-> <<>>] }
    \cup { [kind |-> "raise", msg |-> m] : m \in LookupErrMsgs }

\* json.dumps(result, indent=2, default=str)
Json(result) == <<"json", result>>

ToolValue(v, client, cs) ==
    [kind |-> "value", value |-> v, msg |-> <<>>, client |-> client, calls |-> cs]

ToolNone(client, cs) ==
    [kind |-> "None", value |-> NoneObj, msg |-> <<>>, client |-> client, calls |-> cs]

ToolRaise(m, client, cs) ==
    [kind |-> "raise", value |-> NoneObj, msg |-> m, client |-> client, calls |-> cs]

Invoked(name, answer) == <<Call(name, "call_tool", "", NoVersion, "", answer.msg)>>

\* _health_check
HealthCheck(self, answer) ==
    LET status == [server_status |-> "healthy",
                   environment_check |-> ValidateEnvironment(self.env),
                   client_initialized |-> self.client # NoneObj,
                   tools_registered |-> self.tools_registered,
                   total_tools |-> Cardinality(ToolNames)]
    IN  IF self.client = NoneObj
        THEN ToolValue(status @@ [azure_devops_connection |-> <<"unknown">>],
                       self.client, <<>>)
        ELSE IF answer.kind = "raise"
        THEN ToolValue(status @@ [azure_devops_connection |-> <<"error:">> \o answer.msg],
                       self.client, Invoked("get_projects", answer))
        ELSE IF answer.kind = "None"
        THEN ToolValue(status @@ [azure_devops_connection |-> <<"error:">> \o NotIterableMsg],
                       self.client, Invoked("get_projects", answer))
        ELSE ToolValue(status @@ [azure_devops_connection |-> <<"connected">>,
                                  available_projects |-> "n"],
                       self.client, Invoked("get_projects", answer))

\* _get_tool_documentation
ToolDocumentation(tool_name) ==
    IF tool_name \in ToolNames
    THEN [name |-> tool_name, description |-> "description", inputSchema |-> "schema"]
    ELSE [error |-> <<"Tool", tool_name, "not", "found.">>]

\* variant: an unknown name raises
UnknownTool_Raises(name, client) == ToolRaise(<<"Unknown", "tool:", name>>, client, <<>>)

\* else: logger.warning(...); return None
UnknownTool(name, client) == ToolNone(client, <<>>)

\* a tool that hands arguments to the client method of its name
ClientTool(self, name, arguments, answer) ==
    IF self.client = NoneObj
    THEN ToolRaise(NoAttributeMsg, self.client, <<>>)
    ELSE IF name \notin NoArgumentTools /\ ~Binds(name, arguments)
    THEN ToolRaise(BadArgumentsMsg, self.client, <<>>)
    ELSE IF name = "set_project_context"
    THEN ToolValue([message |-> <<"Project", "context", "set", "to", Get(arguments, "project")>>],
                   [self.client EXCEPT !.project_context = Get(arguments, "project")],
                   Invoked(name, [kind |-> "value", msg |-> <<>>]))
    ELSE IF name = "clear_project_context"
    THEN ToolValue([message |-> <<"Project", "context", "cleared.">>],
                   [self.client EXCEPT !.project_context = NoneValue],
                   Invoked(name, [kind |-> "value", msg |-> <<>>]))
    ELSE IF answer.kind = "raise"
    THEN ToolRaise(answer.msg, self.client, Invoked(name, answer))
    ELSE IF name = "delete_wiki_page"
    THEN ToolValue([message |-> <<"Wiki", "page", Get(arguments, "path"), "deleted",
                                  "successfully.">>, path |-> Get(arguments, "path")],
                   self.client, Invoked(name, answer))
    ELSE IF answer.kind = "None"
    THEN IF name \in ReadingTools
         THEN ToolRaise(NoAttributeMsg, self.client, Invoked(name, answer))
         ELSE IF name = "get_wiki_page_by_title"
         THEN ToolValue([message |-> <<"No", "page", "found", "with", "title",
                                       Get(arguments, "title")>>],
                        self.client, Invoked(name, answer))
         ELSE ToolNone(self.client, Invoked(name, answer))
    ELSE ToolValue([tool |-> name, result |-> "value"], self.client, Invoked(name, answer))

\* _execute_tool
ExecuteTool(self, name, arguments, answer) ==
    IF name = "server_health_check" THEN HealthCheck(self, answer)
    ELSE IF name = "list_tools" THEN ToolValue(ToolNames, self.client, <<>>)
    ELSE IF name = "get_tool_documentation"
    THEN ToolValue(ToolDocumentation(Get(arguments, "tool_name")), self.client, <<>>)
    ELSE IF name \in ToolNames THEN ClientTool(self, name, arguments, answer)
    ELSE UnknownTool(name, self.client)

NotInitializedText ==
    <<"Error:", "Azure", "DevOps", "client", "not", "initialized.", "Please", "check",
      "your", "configuration.">>

NoResultText(name) ==
    <<"Error:", "Tool", name, "not", "found", "or", "returned", "no", "result.">>

\* variant: the exception leaves the handler and ends the serving loop
ToolExcept_Reraise(name, m) ==
    [outcome |-> Raised(Err(m, 0)), phase |-> "crashed"]

\* except Exception as e: the error text is the response
ToolExcept(name, m) ==
    [outcome |-> Returned(<<"Error:", "Error", "executing", "tool", name>> \o m),
     phase |-> "serving"]


\* variant: the handler does not look at the client
NotInitialized_Never(self) == FALSE

\* if not self.client
NotInitialized(self) == self.client = NoneObj

\* the call_tool handler: the response, what became of the client, the client
\* methods invoked, and how the execution of the tool ended
CallTool(self, name, arguments, answer) ==
    IF NotInitialized(self)
    THEN [outcome |-> Returned(NotInitializedText), phase |-> self.phase,
          client |-> self.client, calls |-> <<>>, exec |-> "none", msg |-> <<>>]
    ELSE LET x == ExecuteTool(self, name, arguments, answer)
         IN  IF x.kind = "raise"
             THEN [outcome |-> ToolExcept(name, x.msg).outcome,
                   phase |-> ToolExcept(name, x.msg).phase,
                   client |-> x.client, calls |-> x.calls, exec |-> "raise", msg |-> x.msg]
             ELSE IF x.kind = "None"
             THEN [outcome |-> Returned(NoResultText(name)), phase |-> self.phase,
                   client |-> x.client, calls |-> x.calls, exec |-> "None", msg |-> <<>>]
             ELSE [outcome |-> Returned(Json(x.value)), phase |-> self.phase,
                   client |-> x.client, calls |-> x.calls, exec |-> "value", msg |-> <<>>]

InClientInit == op = "AzureDevOpsClient"

InRun == op = "run"

\* AzureDevOpsClient() constructed on its own
ConstructClient ==
    /\ op = "idle" /\ server.phase = "new"
    /\ \E conn \in ConnectionAnswers :
          LET r == NewClient(server.env, conn)
          IN  /\ outcome' = IF r.ok THEN Returned(r.client) ELSE Raised(Err(r.msg, 0))
              /\ calls' = r.calls
    /\ op' = "AzureDevOpsClient"
    /\ pc' = "done"
    /\ UNCHANGED <<wikiVars, args, local, remote, server>>

\* run(): the two checks, then the protocol loop or sys.exit(1)
ServerRun ==
    /\ op = "idle" /\ server.phase = "new"
    /\ op' = "run"
    /\ IF ~ValidateEnvironment(server.env)
       THEN /\ server' = [server EXCEPT !.phase = "exited"]
            /\ UNCHANGED calls
       ELSE \E conn \in ConnectionAnswers :
               LET r == NewClient(server.env, conn)
               IN  /\ server' = IF r.ok
                                THEN [server EXCEPT !.phase = "serving", !.client = r.client]
                                ELSE [server EXCEPT !.phase = "exited"]
                   /\ calls' = r.calls
    /\ pc' = server'.phase
    /\ UNCHANGED <<wikiVars, args, local, outcome, remote>>

\* the list_tools handler
ListToolsHandler ==
    /\ InRun /\ server.phase = "serving"
    /\ ~server.tools_registered
    /\ server' = [server EXCEPT !.tools_registered = TRUE]
    /\ UNCHANGED <<wikiVars, op, pc, args, local, outcome, calls, remote>>

\* the call_tool handler, for one request
CallToolHandler(name, arguments) ==
    /\ InRun /\ server.phase = "serving"
    /\ server.served < MaxCalls
    /\ \E answer \in Answers :
          LET r == CallTool(server, name, arguments, answer)
          IN  /\ server' = [server EXCEPT !.client = r.client, !.phase = r.phase,
                                          !.served = server.served + 1,
                                          !.failed = server.failed \/ r.exec = "raise"]
              /\ outcome' = r.outcome
              /\ calls' = r.calls
              /\ local' = [exec |-> r.exec, msg |-> r.msg, failed_before |-> server.failed]
    /\ args' = [name |-> name, arguments |-> arguments]
    /\ pc' = server'.phase
    /\ UNCHANGED <<wikiVars, op, remote>>

InitServer ==
    /\ WikiAtRest
    /\ calls = <<>>
    /\ op = "idle"
    /\ pc = "idle"
    /\ args = NoArgs
    /\ local = NoLocal
    /\ outcome = NoOutcome
    /\ remote = NoRemote
    /\ server \in { NewServer(e) : e \in Envs }

NextServer ==
    \/ ConstructClient
    \/ ServerRun
    \/ ListToolsHandler
    \/ \E name \in CallNames : \E arguments \in ArgumentsFor(name) :
          CallToolHandler(name, arguments)

SpecServer == InitServer /\ [][NextServer]_vars

-----------------------------------------------------------------------------
\* search_work_items

MaxFound == 2

UpperChar(c) ==
    IF \E i \in 1..Len(LowerCase) : LowerCase[i] = c
    THEN UpperCase[CHOOSE i \in 1..Len(LowerCase) : LowerCase[i] = c]
    ELSE c

\* s.upper()
UpperStr(s) == [i \in 1..Len(s) |-> UpperChar(s[i])]

\* s.replace(old, new): every occurrence of old, from the left, without overlap
RECURSIVE Replace(_, _, _)
Replace(s, old, new) ==
    IF Len(s) < Len(old) THEN s
    ELSE IF SubSeq(s, 1, Len(old)) = old
    THEN new \o Replace(SubSeq(s, Len(old) + 1, Len(s)), old, new)
    ELSE <<Head(s)>> \o Replace(Tail(s), old, new)

\* "[System.TeamProject]"
TeamProjectField ==
    <<"[", "S", "y", "s", "t", "e", "m", ".", "T", "e", "a", "m", "P", "r", "o", "j",
      "e", "c", "t", "]">>

\* "WHERE"
WhereWord ==
    <<"W", "H", "E", "R", "E">>

\* " WHERE "
WhereClause ==
    <<" ", "W", "H", "E", "R", "E", " ">>

\* f" WHERE [System.TeamProject] = '{project}' AND "
WhereProjectAnd(project) ==
    WhereClause \o TeamProjectField \o <<" ", "=", " ", "'">> \o project
    \o <<"'", " ", "A", "N", "D", " ">>

\* f" WHERE [System.TeamProject] = '{project}'"
WhereProject(project) ==
    WhereClause \o TeamProjectField \o <<" ", "=", " ", "'">> \o project \o <<"'">>

\* the if / elif that adds the project filter to the query
ScopedQuery(project, wiql_query) ==
    IF ~Contains(wiql_query, TeamProjectField)
       /\ Contains(UpperStr(wiql_query), WhereWord)
    THEN Replace(wiql_query, WhereClause, WhereProjectAnd(project))
    ELSE IF ~Contains(wiql_query, TeamProjectField)
    THEN wiql_query \o WhereProject(project)
    ELSE wiql_query

\* "SELECT a FROM b"
SelectFrom ==
    <<"S", "E", "L", "E", "C", "T", " ", "a", " ", "F", "R", "O", "M", " ", "b">>

\* "c = 1"
Condition ==
    <<"c", " ", "=", " ", "1">>

\* " OR d IN (SELECT d FROM e WHERE f = 1)"
OrSubquery ==
    <<" ", "O", "R", " ", "d", " ", "I", "N", " ", "(", "S", "E", "L", "E", "C", "T",
      " ", "d", " ", "F", "R", "O", "M", " ", "e", " ", "W", "H", "E", "R", "E", " ",
      "f", " ", "=", " ", "1", ")">>

\* the queries given to search_work_items: without a WHERE clause, with WHERE
\* in upper, lower and mixed case, with WHERE after a line break, with two
\* WHERE clauses, with a project predicate (after WHERE in either case, and
\* with the field name in lower case), and with WHERE inside a word
Queries ==
    { SelectFrom,
      SelectFrom \o WhereClause \o Condition,
      SelectFrom \o LowerStr(WhereClause) \o Condition,
      SelectFrom \o <<" ", "W", "h", "e", "r", "e", " ">> \o Condition,
      SelectFrom \o <<"\n">> \o WhereWord \o <<" ">> \o Condition,
      SelectFrom \o WhereClause \o Condition \o OrSubquery,
      SelectFrom \o WhereClause \o TeamProjectField \o <<" ", "=", " ", "'", "P", "'">>,
      SelectFrom \o LowerStr(WhereClause) \o TeamProjectField
         \o <<" ", "=", " ", "'", "P", "'">>,
      SelectFrom \o WhereClause \o LowerStr(TeamProjectField)
         \o <<" ", "=", " ", "'", "P", "'">>,
      SelectFrom \o <<"w", "h", "e", "r", "e">> }

\* project names, as text
QueryProjects == { <<"P">>, <<"Q", "2">> }

\* a work item as get_work_items returns it; a field may be missing
FoundItem(id) ==
    [id |-> id, title |-> IF id = 1 THEN "t1" ELSE NoneValue, state |-> "Active",
     url |-> "url"]

\* query_result.work_items: None, or the references found
FoundLists == { [k \in 1..n |-> k] : n \in 0..MaxFound }

NoQueryLocal == [wiql_query |-> <<>>, work_item_ids |-> <<>>]

InSearchItems == op = "search_work_items"

\* the rewriting of the query, up to wiql = Wiql(query=wiql_query)
StartSearchItems(project, wiql_query) ==
    /\ remote.kind = "work items"
    /\ op = "idle"
    /\ op' = "search_work_items"
    /\ args' = [project |-> project, wiql_query |-> wiql_query]
    /\ local' = [NoQueryLocal EXCEPT !.wiql_query = ScopedQuery(project, wiql_query)]
    /\ pc' = "query"
    /\ UNCHANGED <<wikiVars, calls, outcome, remote, server>>

\* query_by_wiql(wiql): an exception leaves search_work_items; without
\* references the result is the empty list
SearchItemsQuery ==
    /\ InSearchItems /\ pc = "query"
    /\ \/ \E m \in ErrMsgs :
            /\ calls' = Append(calls, [fn |-> "query_by_wiql", query |-> local.wiql_query,
                                       ids |-> <<>>, err |-> m])
            /\ outcome' = Raised(Err(m, Len(calls) + 1))
            /\ pc' = "done"
            /\ UNCHANGED local
       \/ \E found \in FoundLists :
            /\ calls' = Append(calls, [fn |-> "query_by_wiql", query |-> local.wiql_query,
                                       ids |-> <<>>, err |-> <<>>])
            /\ IF found # <<>>
               THEN /\ local' = [local EXCEPT !.work_item_ids = found]
                    /\ pc' = "items"
                    /\ UNCHANGED outcome
               ELSE /\ outcome' = Returned(<<>>)
                    /\ pc' = "done"
                    /\ UNCHANGED local
    /\ UNCHANGED <<wikiVars, op, args, remote, server>>

\* get_work_items(ids=work_item_ids) and the list built from its result
SearchItemsFetch ==
    /\ InSearchItems /\ pc = "items"
    /\ \/ \E m \in ErrMsgs :
            /\ calls' = Append(calls, [fn |-> "get_work_items", query |-> <<>>,
                                       ids |-> local.work_item_ids, err |-> m])
            /\ outcome' = Raised(Err(m, Len(calls) + 1))
       \/ /\ calls' = Append(calls, [fn |-> "get_work_items", query |-> <<>>,
                                     ids |-> local.work_item_ids, err |-> <<>>])
          /\ outcome' = Returned([k \in 1..Len(local.work_item_ids) |->
                                    FoundItem(local.work_item_ids[k])])
    /\ pc' = "done"
    /\ UNCHANGED <<wikiVars, op, args, local, remote, server>>

InitQuery ==
    /\ WikiAtRest
    /\ calls = <<>>
    /\ op = "idle"
    /\ pc = "idle"
    /\ args = NoArgs
    /\ local = NoLocal
    /\ outcome = NoOutcome
    /\ remote = [kind |-> "work items"]
    /\ server = NoServer

NextQuery ==
    \/ \E project \in QueryProjects, wiql_query \in Queries :
          StartSearchItems(project, wiql_query)
    \/ SearchItemsQuery
    \/ SearchItemsFetch

SpecQuery == InitQuery /\ [][NextQuery]_vars

-----------------------------------------------------------------------------
\* The updates against objects of any shape.

InitToken ==
    /\ wiki = [p \in Paths |-> IF p = "/a" THEN Page("c1", 1) ELSE Absent]
    /\ wiki0 = wiki
    /\ calls = <<>>
    /\ op = "idle"
    /\ pc = "idle"
    /\ args = NoArgs
    /\ attempt = 0
    /\ etag = NoVersion
    /\ local = NoLocal
    /\ outcome = NoOutcome
    /\ touched = FALSE
    /\ beaten = 0
    /\ nominal = TRUE
    /\ remote = [kind |-> "objects"]
    /\ server = NoServer

NextToken ==
    \/ \E p \in Paths, c \in Contents : StartPlain(p, c)
    \/ \E p \in Paths, c \in Contents : StartUpdateSafe(p, c, 1)
    \/ PlainFetch
    \/ PlainWrite
    \/ SafeFetch
    \/ SafeWrite

SpecToken == InitToken /\ [][NextToken]_vars

-----------------------------------------------------------------------------
\* update_wiki_page, then update_wiki_page_safe with max_retries = 1, against
\* a remote that behaves the same way both times.

\* what get_page answers: a fault, or an object of one of the layouts
FetchShapes == {"e_tag", "page.eTag", "none"}

\* the behaviour of the remote: the fault of the fetch (<<>> for none) and the
\* shape of the object it returns, whether another writer edits the page
\* between the fetch and the write, the fault of the write; first is the run
\* of update_wiki_page once it is over
Behaviours ==
    [kind : {"behaviour"}, fetch_fault : ErrMsgs \cup {<<>>}, shape : FetchShapes,
     other_writer : BOOLEAN, write_fault : ErrMsgs \cup {<<>>},
     first : {[over |-> FALSE, calls |-> <<>>, outcome |-> NoOutcome]}]

\* the fetch of this step was answered as the behaviour says
FetchAsBehaviour ==
    LET e == calls'[Len(calls')].err
    IN  IF remote.fetch_fault # <<>> THEN e = remote.fetch_fault
        ELSE IF wiki[args.path].exists
        THEN /\ e = <<>>
             /\ DOMAIN local'.page.tags
                  = (IF remote.shape = "none" THEN {} ELSE {remote.shape})
        ELSE CASE remote.shape = "e_tag" -> e = PageMissingMsg
               [] remote.shape = "page.eTag" -> e = <<>> /\ local'.page = NoneResp
               [] OTHER -> e = <<>> /\ local'.page.kind = "resp"

\* the write of this step was answered as the behaviour says: with the fault,
\* or as the service answers the request sent
WriteAsBehaviour ==
    LET c == calls'[Len(calls')]
    IN  IF remote.write_fault # <<>>
        THEN c.err = remote.write_fault /\ wiki' = wiki
        ELSE \E r \in WriteAnswers(wiki, c.path, c.content, c.version) :
                r.regular /\ c.err = ErrOf(r) /\ wiki' = r.wiki

\* the other writer, when there is one and it can write, has written
OtherWriterDone ==
    (/\ remote.other_writer
     /\ wiki[args.path].exists
     /\ wiki[args.path].version < MaxVersion - 1) => touched

BehavedPlainFetch == PlainFetch /\ FetchAsBehaviour

BehavedPlainWrite == OtherWriterDone /\ PlainWrite /\ WriteAsBehaviour

BehavedSafeFetch == SafeFetch /\ FetchAsBehaviour

BehavedSafeWrite == OtherWriterDone /\ SafeWrite /\ WriteAsBehaviour

OtherWriter == remote.other_writer /\ ExternalWrite

\* the same call made to update_wiki_page_safe with max_retries = 1, the remote
\* being as it was before update_wiki_page ran
SafeOnceAfterPlain ==
    /\ InPlain /\ pc = "done" /\ ~remote.first.over
    /\ remote' = [remote EXCEPT !.first = [over |-> TRUE, calls |-> calls,
                                           outcome |-> outcome, wiki |-> wiki]]
    /\ op' = "update_wiki_page_safe"
    /\ args' = [args EXCEPT !.max_retries = 1]
    /\ attempt' = 0
    /\ pc' = LoopHead(0, 1).pc
    /\ outcome' = LoopHead(0, 1).outcome
    /\ local' = NoLocal
    /\ calls' = <<>>
    /\ wiki' = wiki0
    /\ etag' = NoVersion
    /\ touched' = FALSE
    /\ beaten' = 0
    /\ nominal' = TRUE
    /\ UNCHANGED <<wiki0, server>>

InitUpdate ==
    /\ wiki \in [Paths -> {Absent} \cup InitPages]
    /\ wiki0 = wiki
    /\ calls = <<>>
    /\ op = "idle"
    /\ pc = "idle"
    /\ args = NoArgs
    /\ attempt = 0
    /\ etag = NoVersion
    /\ local = NoLocal
    /\ outcome = NoOutcome
    /\ touched = FALSE
    /\ beaten = 0
    /\ nominal = TRUE
    /\ remote \in Behaviours
    /\ server = NoServer

NextUpdate ==
    \/ \E p \in Paths, c \in Contents : StartPlain(p, c)
    \/ BehavedPlainFetch
    \/ OtherWriter
    \/ BehavedPlainWrite
    \/ SafeOnceAfterPlain
    \/ BehavedSafeFetch
    \/ BehavedSafeWrite

SpecUpdate == InitUpdate /\ [][NextUpdate]_vars

-----------------------------------------------------------------------------
\* The project context of the client and the operations that default to it.

MaxContextCalls == 3

\* the project argument of a call: omitted (None), empty, or a name
ProjectArgs == {NoneValue, "", "P1", "P2"}

TeamArgs == {NoneValue, "T"}

DefaultingOps ==
    { "get_work_item_comments", "add_work_item_comment", "list_iterations",
      "list_iteration_work_items" }

\* a ValueError the client raises itself
ValueError(m) == [type |-> "ValueError", msg |-> m, src |-> 0]

\* the message of the ValueError of each operation
ProjectMissingMsg(name) ==
    IF name = "get_work_item_comments"
    THEN <<"Project", "must", "be", "specified", "either", "as", "parameter", "or",
           "set", "in", "project", "context">>
    ELSE <<"Project", "must", "be", "specified", "either", "as", "parameter", "or",
           "set", "via", "set_project_context", "tool.", "Use", "set_project_context",
           "to", "set", "the", "project", "context", "for", "subsequent", "commands.">>

\* variant: the context comes before the argument
ProjectName_ContextFirst(project, project_context) ==
    IF ~Falsy(project_context) THEN project_context ELSE project

\* project_name = project or self.project_context
ProjectName(project, project_context) ==
    IF ~Falsy(project) THEN project ELSE project_context

\* variant: the operation keeps the project it used
ClientAfterDefaulting_Remembers(client, project_name) ==
    [client EXCEPT !.project_context = project_name]

\* project_name is a local of the operation: the client is as it was
ClientAfterDefaulting(client, project_name) == client

\* the first remote call of an operation that defaults its project
FirstRemoteCall(name, team) ==
    CASE name = "get_work_item_comments" -> "get_comments"
      [] name = "add_work_item_comment" -> "add_comment"
      [] name = "list_iterations" ->
             IF Falsy(team) THEN "get_project" ELSE "get_team_iterations"
      [] OTHER -> "query_by_wiql"

\* the remote call that follows fn when fn returned; "" when there is none
\* (found: the query of list_iteration_work_items returned references)
NextRemoteCall(fn, found) ==
    CASE fn = "get_project" -> "get_team_iterations"
      [] fn = "query_by_wiql" -> IF found THEN "get_work_items" ELSE ""
      [] OTHER -> ""

\* one remote call of these operations: the project it was made for
ProjectCall(fn, project, e) == [fn |-> fn, project |-> project, err |-> e]

NoContextLocal == [history |-> <<>>, project_name |-> NoneValue, next |-> ""]

\* a behaviour is a sequence of set_project_context and clear_project_context
\* calls followed by one other operation: pc is "done" after the former and
\* "over" after the latter
AtRestInContext == pc \in {"idle", "done"}

\* set_project_context(project), called on the client
SetProjectContext(project) ==
    /\ AtRestInContext
    /\ Len(local.history) < MaxContextCalls
    /\ op' = "set_project_context"
    /\ args' = [project |-> project, team |-> NoneValue]
    /\ server' = [server EXCEPT !.client.project_context = project]
    /\ outcome' = Returned([message |-> <<"Project", "context", "set", "to", project>>])
    /\ local' = [local EXCEPT !.history = Append(local.history, [set |-> TRUE, project |-> project])]
    /\ calls' = <<>>
    /\ pc' = "done"
    /\ UNCHANGED <<wikiVars, remote>>

\* clear_project_context(), called on the client
ClearProjectContext ==
    /\ AtRestInContext
    /\ Len(local.history) < MaxContextCalls
    /\ op' = "clear_project_context"
    /\ args' = [project |-> NoneValue, team |-> NoneValue]
    /\ server' = [server EXCEPT !.client.project_context = NoneValue]
    /\ outcome' = Returned([message |-> <<"Project", "context", "cleared.">>])
    /\ local' = [local EXCEPT !.history = Append(local.history, [set |-> FALSE, project |-> NoneValue])]
    /\ calls' = <<>>
    /\ pc' = "done"
    /\ UNCHANGED <<wikiVars, remote>>

\* an operation that defaults its project, up to its first remote call
StartDefaulting(name, project, team) ==
    /\ AtRestInContext
    /\ op' = name
    /\ args' = [project |-> project, team |-> team]
    /\ calls' = <<>>
    /\ LET project_name == ProjectName(project, server.client.project_context)
       IN  /\ server' = [server EXCEPT
                           !.client = ClientAfterDefaulting(server.client, project_name)]
           /\ IF Falsy(project_name)
              THEN /\ outcome' = Raised(ValueError(ProjectMissingMsg(name)))
                   /\ pc' = "over"
                   /\ local' = [local EXCEPT !.project_name = project_name, !.next = ""]
              ELSE /\ outcome' = NoOutcome
                   /\ pc' = "remote"
                   /\ local' = [local EXCEPT !.project_name = project_name,
                                             !.next = FirstRemoteCall(name, team)]
    /\ UNCHANGED <<wikiVars, remote>>

\* a remote call of the operation, made with project_name; an exception
\* leaves the operation
DefaultingRemote ==
    /\ op \in DefaultingOps /\ pc = "remote"
    /\ \/ \E m \in LookupErrMsgs :
            /\ calls' = Append(calls, ProjectCall(local.next, local.project_name, m))
            /\ outcome' = Raised(Err(m, Len(calls) + 1))
            /\ pc' = "over"
            /\ local' = [local EXCEPT !.next = ""]
       \/ \E found \in BOOLEAN :
            /\ calls' = Append(calls, ProjectCall(local.next, local.project_name, <<>>))
            /\ IF NextRemoteCall(local.next, found) = ""
               THEN /\ outcome' = Returned([operation |-> op])
                    /\ pc' = "over"
               ELSE /\ outcome' = NoOutcome
                    /\ pc' = "remote"
            /\ local' = [local EXCEPT !.next = NextRemoteCall(local.next, found)]
    /\ UNCHANGED <<wikiVars, op, args, remote, server>>

\* a tool call served by call_tool on the same client
ContextToolCall(name, arguments) ==
    /\ AtRestInContext
    /\ name \in {"set_project_context", "clear_project_context"} =>
          Len(local.history) < MaxContextCalls
    /\ \E answer \in Answers :
          LET r == CallTool(server, name, arguments, answer)
          IN  /\ server' = [server EXCEPT !.client = r.client]
              /\ outcome' = r.outcome
    /\ op' = "call_tool"
    /\ args' = [project |-> Get(arguments, "project"), team |-> NoneValue, name |-> name]
    /\ calls' = <<>>
    /\ local' = [local EXCEPT !.history =
                    IF name = "set_project_context" /\ Binds(name, arguments)
                    THEN Append(local.history,
                                [set |-> TRUE, project |-> Get(arguments, "project")])
                    ELSE IF name = "clear_project_context"
                    THEN Append(local.history, [set |-> FALSE, project |-> NoneValue])
                    ELSE local.history]
    /\ pc' = IF name \in {"set_project_context", "clear_project_context"}
             THEN "done" ELSE "over"
    /\ UNCHANGED <<wikiVars, remote>>

\* the arguments of the tool calls: the required ones, with or without a
\* project of their own, or none
ContextArguments(name) ==
    { {}, { <<k, "v">> : k \in Required(name) },
      { <<k, "v">> : k \in Required(name) \ {"project"} } \cup {<<"project", "P2">>} }

InitContext ==
    /\ WikiAtRest
    /\ calls = <<>>
    /\ op = "idle"
    /\ pc = "idle"
    /\ args = [project |-> NoneValue, team |-> NoneValue]
    /\ local = NoContextLocal
    /\ outcome = NoOutcome
    /\ remote = [kind |-> "projects"]
    /\ server = [NewServer([url |-> OrgUrl, pat |-> "secret"]) EXCEPT
                   !.phase = "serving",
                   !.client = Client([url |-> OrgUrl, pat |-> "secret"])]

NextContext ==
    \/ \E project \in ProjectArgs : SetProjectContext(project)
    \/ ClearProjectContext
    \/ \E name \in DefaultingOps, project \in ProjectArgs, team \in TeamArgs :
          StartDefaulting(name, project, team)
    \/ DefaultingRemote
    \/ \E name \in CallNames : \E arguments \in ContextArguments(name) :
          ContextToolCall(name, arguments)

SpecContext == InitContext /\ [][NextContext]_vars

-----------------------------------------------------------------------------
\* The handlers of a server that was constructed, whether or not run() has
\* initialised the client: __init__ registers them.

\* the call_tool handler invoked before run()
CallToolBeforeRun(name, arguments) ==
    /\ op = "idle" /\ server.phase = "new"
    /\ server.served < MaxCalls
    /\ \E answer \in Answers :
          LET r == CallTool(server, name, arguments, answer)
          IN  /\ server' = [server EXCEPT !.client = r.client, !.phase = r.phase,
                                          !.served = server.served + 1,
                                          !.failed = server.failed \/ r.exec = "raise"]
              /\ outcome' = r.outcome
              /\ calls' = r.calls
              /\ local' = [exec |-> r.exec, msg |-> r.msg, failed_before |-> server.failed]
    /\ args' = [name |-> name, arguments |-> arguments]
    /\ UNCHANGED <<wikiVars, op, pc, remote>>

\* the list_tools handler invoked before run()
ListToolsBeforeRun ==
    /\ op = "idle" /\ server.phase = "new"
    /\ ~server.tools_registered
    /\ server' = [server EXCEPT !.tools_registered = TRUE]
    /\ UNCHANGED <<wikiVars, op, pc, args, local, outcome, calls, remote>>

\* the tools called once the client is there: those that do not use it, and
\* one that does
ServedNames ==
    {"server_health_check", "list_tools", "get_tool_documentation", "get_projects"}

NextHandlers ==
    \/ ServerRun
    \/ ListToolsHandler
    \/ \E name \in ServedNames : \E arguments \in ArgumentsFor(name) :
          CallToolHandler(name, arguments)
    \/ ListToolsBeforeRun
    \/ \E name \in CallNames : \E arguments \in ArgumentsFor(name) :
          CallToolBeforeRun(name, arguments)

SpecHandlers == InitServer /\ [][NextHandlers]_vars

----------------------------------------------------------------------------
\* Properties.

Range(q) == { q[i] : i \in 1..Len(q) }

IsFetch(c) == c.fn = "get_page"

IsWrite(c) == c.fn = "create_or_update_page"

IsDelete(c) == c.fn = "delete_page"

Done == pc = "done"

InUpdateSafe == op = "update_wiki_page_safe"

\* so far every fetch returned and every write was refused with a version message
OnlyConflicts ==
    \A i \in 1..Len(calls) :
        /\ IsFetch(calls[i]) => calls[i].err = <<>>
        /\ IsWrite(calls[i]) => calls[i].err \in {<<"Version", "conflict">>,
                                                  <<"VERSION", "of", "page", "not", "found">>}

\* messages of the model that do not speak of a version
NonVersionMsgs ==
    { <<"Page", "Not", "Found">>, <<"HTTP", "404">>, <<"server", "error">>,
      <<"page", "could", "not", "be", "found">>, AlreadyExistsMsg }

\* messages of the model that hold "not found" in some letter case, or "404"
NotFoundMsgs ==
    { <<"Page", "Not", "Found">>, <<"HTTP", "404">>,
      <<"VERSION", "of", "page", "not", "found">> }

\* C1: for every max_retries N >= 1, a safe update that met a version conflict
\* on every attempt raises the exhausted-retries error, whose message says
\* "after N attempts", and not the conflict error of the remote write.
C1_ExhaustedErrorRaised ==
    (InUpdateSafe /\ Done /\ args.max_retries >= 1 /\ OnlyConflicts)
        => outcome = Raised(ExhaustedErr(args.max_retries))

\* C2: for every max_retries N >= 1, while every write is refused with a
\* version conflict the safe update issues fetch and write alternately, fetch
\* first, ends with an error exactly when N cycles are done, and never issues
\* a call after the N-th write.
C2_ExactlyNCycles ==
    (InUpdateSafe /\ args.max_retries >= 1 /\ OnlyConflicts) =>
        /\ Len(calls) <= 2 * args.max_retries
        /\ \A i \in 1..Len(calls) :
              IF i % 2 = 1 THEN IsFetch(calls[i]) ELSE IsWrite(calls[i])
        /\ Done <=> Len(calls) = 2 * args.max_retries
        /\ Done => outcome.kind = "raise"
        /\ ~Done => outcome.kind = "none"

C2_Witness ==
    /\ InUpdateSafe /\ Done /\ OnlyConflicts
    /\ args.max_retries = MaxRetries
    /\ Len(calls) = 2 * MaxRetries
    /\ outcome.kind = "raise"

\* C3: in a safe update, a fetch or write that fails with a message that does
\* not speak of a version is the last remote call, and the error it raised is
\* what the caller gets, unwrapped.
C3_NonVersionErrorPropagates ==
    InUpdateSafe =>
        \A i \in 1..Len(calls) :
            calls[i].err \in NonVersionMsgs =>
                /\ i = Len(calls)
                /\ Done
                /\ outcome = Raised(Err(calls[i].err, i))

\* the write of attempt 2 of 3 fails with a server error
C3_Witness ==
    /\ InUpdateSafe /\ args.max_retries = 3
    /\ Len(calls) = 4
    /\ IsWrite(calls[4]) /\ calls[4].err = <<"server", "error">>
    /\ outcome = Raised(Err(<<"server", "error">>, 4))

\* C4: against a page that carries a version token, with a writer that may
\* change the page between fetch and write and no other failure, a safe update
\* with max_retries N >= 1 returns, the page then holding the new content,
\* whenever fewer than N attempts were interfered with; it raises only when
\* all N attempts were.
C4_SucceedsUnlessAllBeaten ==
    (InUpdateSafe /\ Done /\ nominal /\ args.max_retries >= 1
        /\ wiki0[args.path].exists) =>
        /\ beaten <= args.max_retries
        /\ beaten < args.max_retries =>
              /\ outcome.kind = "return"
              /\ wiki[args.path].exists
              /\ wiki[args.path].content = args.content
        /\ outcome.kind = "raise" => beaten = args.max_retries

\* two attempts beaten by the other writer, the third one succeeds
C4_Witness ==
    /\ InUpdateSafe /\ Done /\ nominal
    /\ args.max_retries = 3 /\ beaten = 2
    /\ outcome.kind = "return"
    /\ wiki[args.path].content = args.content

InSmart == op = "create_or_update_wiki_page_smart"

CreateCalls == { i \in 1..Len(calls) : calls[i].by = "create_wiki_page" }

\* C5: in create_or_update_wiki_page_smart, a create_wiki_page call is made
\* only after the inner safe update failed with a not-found flavoured message,
\* and then exactly once, as the last call, its result being the result of the
\* operation; after any other failure, and after a success, there is no create
\* call and the inner outcome is the outcome of the operation.
C5_SmartFallback ==
    InSmart =>
        /\ Cardinality(CreateCalls) <= 1
        /\ CreateCalls # {} =>
              /\ local.inner.kind = "raise"
              /\ local.inner.err.msg \in NotFoundMsgs
              /\ CreateCalls = {Len(calls)}
              /\ Done
              /\ IF calls[Len(calls)].err = <<>>
                 THEN /\ outcome.kind = "return"
                      /\ outcome.value.page.path = args.path
                      /\ outcome.value.page.content = args.content
                 ELSE outcome = Raised(Err(calls[Len(calls)].err, Len(calls)))
        /\ (Done /\ local.inner.kind = "raise"
                 /\ local.inner.err.msg \in NotFoundMsgs) => CreateCalls # {}
        /\ (Done /\ CreateCalls = {}) => outcome = local.inner

\* the fallback ran after a "Page Not Found" failure and created the page
C5_Witness ==
    /\ InSmart /\ Done
    /\ local.inner.kind = "raise"
    /\ local.inner.err.msg = <<"Page", "Not", "Found">>
    /\ Cardinality(CreateCalls) = 1
    /\ outcome.kind = "return"

InMove == op = "move_wiki_page"

\* the text of page pg, empty when the page has no content
TextOf(pg) == IF pg.content = NoContent THEN "" ELSE pg.content

\* the delete of the original was issued and failed
DeleteFailed ==
    /\ Len(calls) = 3
    /\ IsDelete(calls[3])
    /\ calls[3].err # <<>>

CreateFailed ==
    \E i \in 1..Len(calls) : calls[i].by = "create_wiki_page" /\ calls[i].err # <<>>

\* C7: in move_wiki_page, when the create at to_path fails, no delete is ever
\* issued, the source page is left as it was, and the error raised names to_path.
C7_CreateFailureKeepsSource ==
    (InMove /\ CreateFailed) =>
        /\ \A i \in 1..Len(calls) : ~IsDelete(calls[i])
        /\ Len(calls) = 2
        /\ Done
        /\ outcome.kind = "raise"
        /\ args.to_path \in Range(outcome.err.msg)
        /\ wiki = wiki0

C7_Witness ==
    /\ InMove /\ CreateFailed /\ Done
    /\ args.from_path # args.to_path
    /\ outcome.kind = "raise"
    /\ wiki0[args.from_path].exists

\* C8: in move_wiki_page, when the source page is absent and the fetch returns
\* nothing or a result without a page, the call raises a "source not found"
\* error, issues neither a create nor a delete, and leaves the wiki unchanged.
C8_SourceAbsent ==
    (InMove /\ Len(calls) >= 1 /\ ~wiki0[args.from_path].exists
        /\ calls[1].err = <<>>) =>
        /\ Done
        /\ Len(calls) = 1
        /\ outcome.kind = "raise"
        /\ Contains(outcome.err.msg,
                    <<"Source", "page", args.from_path, "not", "found">>)
        /\ wiki = wiki0

C8_Witness ==
    /\ InMove /\ Done /\ Len(calls) = 1
    /\ ~wiki0[args.from_path].exists
    /\ calls[1].err = <<>>
    /\ outcome.kind = "raise"

\* C9: for every from_path and to_path, when move_wiki_page returns a result
\* with status "success", the wiki has a page at to_path with the content the
\* source had when fetched and no page at from_path, and the result names both
\* paths.
C9_MoveSuccess ==
    (InMove /\ outcome.kind = "return" /\ outcome.value.status = "success") =>
        /\ wiki[args.to_path].exists
        /\ wiki[args.to_path].content = TextOf(wiki0[args.from_path])
        /\ ~wiki[args.from_path].exists
        /\ outcome.value.from_path = args.from_path
        /\ outcome.value.to_path = args.to_path

C9_Witness ==
    /\ InMove /\ Done
    /\ outcome.kind = "return" /\ outcome.value.status = "success"
    /\ wiki0[args.from_path].content = "c1"
    /\ wiki[args.to_path].exists

InBatch == op = "create_wiki_pages_batch"

\* C10: create_wiki_pages_batch issues one create per entry of pages_data, in
\* input order; entry i of the result carries path i and "success" with the
\* result when create i succeeded, "error" with the message when it failed; a
\* failure does not stop the loop, a page created earlier keeps its content,
\* the call returns the list when all entries were tried and never raises.
C10_BatchResults ==
    InBatch =>
        /\ Len(calls) = Len(local.results)
        /\ Len(calls) <= Len(args.pages_data)
        /\ \A i \in 1..Len(calls) :
              /\ calls[i].by = "create_wiki_page"
              /\ calls[i].path = args.pages_data[i].path
              /\ calls[i].content = args.pages_data[i].content
              /\ local.results[i].path = args.pages_data[i].path
              /\ IF calls[i].err = <<>>
                 THEN /\ local.results[i].status = "success"
                      /\ local.results[i].result.page.path = args.pages_data[i].path
                      /\ wiki[args.pages_data[i].path].exists
                      /\ wiki[args.pages_data[i].path].content
                            = args.pages_data[i].content
                 ELSE /\ local.results[i].status = "error"
                      /\ local.results[i].error = calls[i].err
        /\ Done <=> Len(calls) = Len(args.pages_data)
        /\ Done => outcome = Returned(local.results)
        /\ outcome.kind # "raise"

\* a failed create followed by a successful one
C10_Witness ==
    /\ InBatch /\ Done
    /\ Len(args.pages_data) >= 2
    /\ local.results[1].status = "error"
    /\ local.results[2].status = "success"
    /\ outcome = Returned(local.results)

----------------------------------------------------------------------------
\* Properties of get_work_item_transitions.

\* the type object carries no transition metadata: no attribute, None or []
NoTransitionData == remote.obj.transitions.kind = "missing"
                    \/ (remote.obj.transitions.kind = "list"
                        /\ remote.obj.transitions.items = <<>>)

\* the type object declares states, each with a name
DeclaresStates ==
    /\ remote.obj.states.kind = "list"
    /\ \A i \in 1..Len(remote.obj.states.items) : remote.obj.states.items[i] # Missing

LookupReturned == Len(calls) = 1 /\ calls[1].err = <<>>

NotQueried(st) == st # args.from_state

ToTarget(st) == [to |-> st, actions |-> <<>>]

MapSeq(q, F(_)) == [i \in 1..Len(q) |-> F(q[i])]

\* C11: without transition metadata and with declared states S, the result for
\* from_state s is one transition per declared state other than s, in declared
\* order, each with an empty actions list; s is never a target.
C11_FallbackTransitions ==
    (InTransitions /\ Done /\ LookupReturned /\ NoTransitionData /\ DeclaresStates) =>
        /\ outcome.kind = "return"
        /\ outcome.value
             = MapSeq(SelectSeq(remote.obj.states.items, NotQueried), ToTarget)
        /\ \A i \in 1..Len(outcome.value) : outcome.value[i].to # args.from_state

\* states [A, B, C] queried from A give B and C
C11_Witness ==
    /\ InTransitions /\ Done /\ LookupReturned /\ NoTransitionData
    /\ remote.obj.states.items = <<"A", "B", "C">>
    /\ args.from_state = "A"
    /\ outcome = Returned(<<ToTarget("B"), ToTarget("C")>>)

\* the extraction raises: an attribute that cannot be iterated, or a state
\* without a name in the fallback
ExtractionRaises ==
    \/ remote.obj.transitions.kind = "scalar"
    \/ /\ ~Truthy(remote.obj.transitions)
       /\ \/ remote.obj.states.kind = "scalar"
          \/ /\ remote.obj.states.kind = "list"
             /\ \E i \in 1..Len(remote.obj.states.items) :
                   remote.obj.states.items[i] = Missing

\* C12: get_work_item_transitions never raises; when the type lookup or the
\* extraction fails it returns a mapping with the error message and an empty
\* transitions list.
C12_TransitionsNeverRaise ==
    InTransitions =>
        /\ outcome.kind # "raise"
        /\ Done => outcome.kind = "return"
        /\ (Done /\ calls[1].err # <<>>) =>
              outcome.value = [error |-> calls[1].err, transitions |-> <<>>]
        /\ (Done /\ calls[1].err = <<>> /\ ExtractionRaises) =>
              /\ DOMAIN outcome.value = {"error", "transitions"}
              /\ outcome.value.error \in {NotIterableMsg, NoAttributeMsg}
              /\ outcome.value.transitions = <<>>

\* a state without a name made the extraction fail after a successful lookup
C12_Witness ==
    /\ InTransitions /\ Done /\ LookupReturned /\ ExtractionRaises
    /\ remote.obj.states.kind = "list"
    /\ outcome = Returned([error |-> NoAttributeMsg, transitions |-> <<>>])

-----------------------------------------------------------------------------
\* Properties of the lookups.

InLookup == InSearch \/ InByTitle \/ InListAllWikis \/ InGetWorkItem

Failed(i) == calls[i].err # <<>>

\* the remote call issued for the item named n failed
FailedFor(n) == \E k \in 2..Len(calls) : calls[k].path = n /\ Failed(k)

\* the remote call issued for the item named n answered
AnsweredFor(n) == \E k \in 2..Len(calls) : calls[k].path = n /\ ~Failed(k)

TitleHit(title, path) ==
    LET segments == Split(path, "/")
        normalized == ReplaceChar(ReplaceChar(segments[Len(segments)], "-", " "), "_", " ")
    IN  \/ Contains(LowerStr(normalized), LowerStr(title))
        \/ Contains(LowerStr(title), LowerStr(normalized))

\* the listed pages that pass the title test, by position
Hits == { i \in 1..Len(remote.pages) : TitleHit(args.title, remote.pages[i].path) }

-----------------------------------------------------------------------------
\* Properties of get_wiki_page_tree and get_wiki_page_suggestions.

ViewReturned == Done /\ outcome.kind = "return"

\* the '/'-separated segments of the path of the i-th listed page
SegmentsOf(i) == Split(Strip(remote.pages[i].path, "/"), "/")

\* the dictionary of the i-th listed page
InfoOf(i) ==
    [path |-> remote.pages[i].path, url |-> remote.pages[i].url, view_stats |-> <<>>]

\* walking the segments parts from the level tree reaches a node
RECURSIVE Reaches(_, _)
Reaches(tree, parts) ==
    /\ Head(parts) \in DOMAIN tree
    /\ Len(parts) > 1 => Reaches(tree[Head(parts)].children, Tail(parts))

\* the node that walk reaches
RECURSIVE NodeAt(_, _)
NodeAt(tree, parts) ==
    IF Len(parts) = 1 THEN tree[Head(parts)]
    ELSE NodeAt(tree[Head(parts)].children, Tail(parts))

\* the segment sequences of all nodes of a tree
RECURSIVE NodePaths(_)
NodePaths(tree) ==
    UNION { {<<k>>} \cup { <<k>> \o rest : rest \in NodePaths(tree[k].children) } :
            k \in DOMAIN tree }

ListedPathsAre(q) ==
    /\ Len(remote.pages) = Len(q)
    /\ \A i \in 1..Len(q) : remote.pages[i].path = q[i]

TreeExample == <<<<"a", "/", "b">>, <<"a", "/", "c">>, <<"d">>>>

\* C14: in the tree of a page listing every page is reached by walking the
\* segments of its path and its info sits at the node of its last segment; a
\* node carries an info only if it is the last segment of that page, and every
\* node lies on the path of some page (pages with a common prefix meet in the
\* same nodes); for [a/b, a/c, d] the top level is {a, d}, a has children
\* {b, c}, and d carries its page and has no children.
C14_TreeOfPaths ==
    (InTree /\ ViewReturned) =>
        LET tree == outcome.value
        IN  /\ \A i \in 1..Len(remote.pages) :
                  /\ Reaches(tree, SegmentsOf(i))
                  /\ NodeAt(tree, SegmentsOf(i)).info = InfoOf(i)
            /\ \A n \in NodePaths(tree) :
                  /\ \E i \in 1..Len(remote.pages) :
                        /\ Len(n) <= Len(SegmentsOf(i))
                        /\ SubSeq(SegmentsOf(i), 1, Len(n)) = n
                  /\ IF \E i \in 1..Len(remote.pages) : SegmentsOf(i) = n
                     THEN \E i \in 1..Len(remote.pages) :
                             SegmentsOf(i) = n /\ NodeAt(tree, n).info = InfoOf(i)
                     ELSE NodeAt(tree, n).info = NoneObj
            /\ ListedPathsAre(TreeExample) =>
                  /\ DOMAIN tree = {<<"a">>, <<"d">>}
                  /\ DOMAIN tree[<<"a">>].children = {<<"b">>, <<"c">>}
                  /\ tree[<<"a">>].info = NoneObj
                  /\ tree[<<"d">>].info = InfoOf(3)
                  /\ DOMAIN tree[<<"d">>].children = {}

\* the tree of [a/b, a/c, d]
C14_Witness == InTree /\ ViewReturned /\ ListedPathsAre(TreeExample)

\* the tier of a path for an input
Tier(path, input) ==
    LET p == LowerStr(path)
        q == LowerStr(input)
    IN  IF Len(q) <= Len(p) /\ SubSeq(p, 1, Len(q)) = q THEN 100
        ELSE IF \E k \in 1..(Len(p) - Len(q) + 1) : SubSeq(p, k, k + Len(q) - 1) = q THEN 50
        ELSE IF \E seg \in Range(Split(p, "/")) :
                   Len(q) <= Len(seg) /\ SubSeq(seg, 1, Len(q)) = q THEN 25
        ELSE 0

\* position in the listing of the page a suggestion was made from
ListedAt(s) == CHOOSE i \in 1..Len(remote.pages) : remote.pages[i].path = s.path

\* suggestion s comes before the listed page i in the required ordering
RanksBefore(s, i) ==
    \/ s.match_score > Tier(remote.pages[i].path, args.partial_input)
    \/ /\ s.match_score = Tier(remote.pages[i].path, args.partial_input)
       /\ ListedAt(s) < i

\* C15: the suggestions are pages of the listing with a score above 0, in
\* descending order of score, pages of equal score in listing order; at most 10
\* are returned, and they are the first 10 of that ordering.
C15_SortedStableCapped ==
    (InSuggest /\ ViewReturned) =>
        LET r == outcome.value
            positive == { i \in 1..Len(remote.pages) :
                            Tier(remote.pages[i].path, args.partial_input) > 0 }
        IN  /\ \A k \in 1..Len(r) :
                  /\ r[k].match_score > 0
                  /\ \E i \in positive : r[k].path = remote.pages[i].path
            /\ \A k, l \in 1..Len(r) :
                  k < l => \/ r[k].match_score > r[l].match_score
                           \/ /\ r[k].match_score = r[l].match_score
                              /\ ListedAt(r[k]) < ListedAt(r[l])
            /\ Len(r) <= 10
            /\ Len(r) = IF Cardinality(positive) < 10 THEN Cardinality(positive) ELSE 10
            /\ \A i \in positive :
                  \/ \E k \in 1..Len(r) : r[k].path = remote.pages[i].path
                  \/ \A k \in 1..Len(r) : RanksBefore(r[k], i)

\* more than 10 pages score, with two different scores listed out of order
C15_Witness ==
    /\ InSuggest /\ ViewReturned
    /\ Len(outcome.value) = 10
    /\ Len(remote.pages) > 10
    /\ \E k, l \in 1..10 :
          /\ k < l
          /\ outcome.value[k].match_score > outcome.value[l].match_score
          /\ ListedAt(outcome.value[k]) > ListedAt(outcome.value[l])
    /\ \E k \in 1..9 : outcome.value[k].match_score = outcome.value[k + 1].match_score

SuggestExample == <<HomeBase, HomeSetupBase, GuidesSetupBase>>

\* C16: the score of a suggestion is that of the first tier that applies to its
\* path (prefix 100, substring 50, segment prefix 25), a page of tier 0 is not
\* suggested; for [Home, Home/Setup, Guides/Setup] and input Setup the result is
\* Home/Setup then Guides/Setup, each scoring 25 or more.
C16_ScoringTiers ==
    (InSuggest /\ ViewReturned) =>
        LET r == outcome.value
        IN  /\ \A k \in 1..Len(r) :
                  /\ r[k].match_score = Tier(r[k].path, args.partial_input)
                  /\ r[k].match_score \in {100, 50, 25}
            /\ \A i \in 1..Len(remote.pages) :
                  Tier(remote.pages[i].path, args.partial_input) = 0 =>
                     \A k \in 1..Len(r) : r[k].path # remote.pages[i].path
            /\ (ListedPathsAre(SuggestExample) /\ args.partial_input = <<"S", "e", "t", "u", "p">>) =>
                  /\ Len(r) = 2
                  /\ r[1].path = HomeSetupBase /\ r[1].match_score >= 25
                  /\ r[2].path = GuidesSetupBase /\ r[2].match_score >= 25

\* the suggestions for [Home, Home/Setup, Guides/Setup] and input Setup
C16_Witness ==
    /\ InSuggest /\ ViewReturned
    /\ ListedPathsAre(SuggestExample)
    /\ args.partial_input = <<"S", "e", "t", "u", "p">>

-----------------------------------------------------------------------------
\* Properties of the server and of the construction of the client.

\* the step is a tool call answered by call_tool
CallAnswered == server'.served = server.served + 1

\* C18: a call whose name is not a tool's is answered with the "not found"
\* error text; no exception is raised, no client method is invoked and the
\* client is as it was.
C18_UnknownToolNotFound ==
    [][(CallAnswered /\ args'.name \notin ToolNames) =>
          /\ outcome' = Returned(<<"Error:", "Tool", args'.name, "not", "found", "or",
                                   "returned", "no", "result.">>)
          /\ calls' = <<>>
          /\ server'.client = server.client
          /\ server'.phase = "serving"]_vars

\* an unknown name was answered while a project context was set
C18_Witness ==
    /\ InRun /\ server.served = 2
    /\ args.name = "no_such_tool"
    /\ outcome.kind = "return"
    /\ server.client.project_context = "P1"

\* C19: whatever the tool name and the arguments, a call is answered with a
\* text; when the execution of the tool raised, the text is the error text with
\* the tool's name and the exception's message, and the server goes on serving.
C19_ExceptionsBecomeText ==
    (InRun /\ server.served > 0) =>
        /\ outcome.kind = "return"
        /\ server.phase = "serving"
        /\ local.exec = "raise" =>
              /\ local.msg # <<>>
              /\ outcome.value
                   = <<"Error:", "Error", "executing", "tool", args.name>> \o local.msg

\* a call is answered after an earlier call's tool raised
C19_Witness ==
    /\ InRun /\ server.served = 2
    /\ local.failed_before
    /\ local.exec = "value"
    /\ outcome.kind = "return"

Unset(x) == x = "<None>" \/ x = ""

\* C20: with the URL or the token unset or empty, constructing the client
\* raises the configuration error and no connection has been created; run() of
\* a server in that environment exits: it has no client and serves no call.
C20_UnconfiguredClientRefused ==
    (Unset(server.env.url) \/ Unset(server.env.pat)) =>
        /\ (InClientInit /\ pc = "done") =>
              /\ outcome
                   = Raised(Err(<<"AZURE_DEVOPS_ORG_URL", "and", "AZURE_DEVOPS_PAT",
                                  "environment", "variables", "must", "be", "set.">>, 0))
              /\ calls = <<>>
        /\ InRun =>
              /\ server.phase = "exited"
              /\ server.client = NoneObj
              /\ server.served = 0
              /\ calls = <<>>

\* the client was constructed with an empty token
C20_Witness ==
    /\ InClientInit /\ pc = "done"
    /\ server.env.url = OrgUrl
    /\ server.env.pat = ""
    /\ outcome.kind = "raise"

-----------------------------------------------------------------------------
\* Properties of the transition metadata in get_work_item_transitions.

\* the type object exposes transition metadata: a list with an entry
ExposesTransitions ==
    /\ remote.obj.transitions.kind = "list"
    /\ remote.obj.transitions.items # <<>>

DeclaredFromQueried(t) == t.from # Missing /\ t.from = args.from_state

AsTransition(t) ==
    [to |-> IF t.to = Missing THEN NoneValue ELSE t.to,
     actions |-> IF t.actions = Missing THEN <<>> ELSE t.actions]

\* the result is built from the declared states
FromStates ==
    /\ outcome.kind = "return"
    /\ remote.obj.states.kind = "list"
    /\ outcome.value
         = MapSeq(SelectSeq(remote.obj.states.items, NotQueried), ToTarget)
    /\ outcome.value # <<>>

\* C26: when the type exposes transition metadata, the result of
\* get_work_item_transitions is exactly the transitions whose declared from
\* state equals from_state, in declared order; the declared states are used
\* only when the type exposes no transition metadata at all.
C26_MatchingTransitionsOnly ==
    (InTransitions /\ Done /\ LookupReturned) =>
        /\ ExposesTransitions =>
              outcome = Returned(MapSeq(SelectSeq(remote.obj.transitions.items,
                                                  DeclaredFromQueried),
                                        AsTransition))
        /\ (remote.obj.transitions.kind # "scalar" /\ ~NoTransitionData
            /\ DeclaresStates /\ FromStates) =>
              outcome.value = MapSeq(SelectSeq(remote.obj.transitions.items,
                                               DeclaredFromQueried),
                                     AsTransition)

\* of two declared transitions only the one leaving the queried state is
\* returned, although other states are declared
C26_Witness ==
    /\ InTransitions /\ Done /\ LookupReturned /\ ExposesTransitions
    /\ Len(remote.obj.transitions.items) = 2
    /\ remote.obj.transitions.items[1].from = "B"
    /\ remote.obj.transitions.items[2].from = "A"
    /\ args.from_state = "A"
    /\ remote.obj.states.kind = "list"
    /\ Len(remote.obj.states.items) = 3
    /\ Len(outcome.value) = 1
    /\ outcome.value[1].to \in {"B", "C"}

-----------------------------------------------------------------------------
\* Properties of the scores of get_wiki_page_suggestions.

\* a segment of the path, in lower case, starts with the input in lower case
SegmentStartsWith(path, input) ==
    \E seg \in Range(Split(LowerStr(path), "/")) :
        /\ Len(input) <= Len(seg)
        /\ SubSeq(seg, 1, Len(input)) = LowerStr(input)

\* C28: every match_score returned by get_wiki_page_suggestions is 100 or 50,
\* also for a page one of whose segments starts with the input: 25 is never
\* assigned; with an empty input every page scores 100.
C28_ScoresAre100Or50 ==
    (InSuggest /\ ViewReturned) =>
        LET r == outcome.value
        IN  /\ \A k \in 1..Len(r) : r[k].match_score \in {100, 50}
            /\ \A i \in 1..Len(remote.pages) :
                  SegmentStartsWith(remote.pages[i].path, args.partial_input) =>
                     \A k \in 1..Len(r) :
                        r[k].path = remote.pages[i].path => r[k].match_score # 25
            /\ args.partial_input = <<>> =>
                  /\ \A k \in 1..Len(r) : r[k].match_score = 100
                  /\ Len(r) = IF Len(remote.pages) < 10 THEN Len(remote.pages) ELSE 10

\* a suggested page has a segment that starts with the input, and is not a
\* prefix match
C28_Witness ==
    /\ InSuggest /\ ViewReturned
    /\ args.partial_input # <<>>
    /\ \E k \in 1..Len(outcome.value) :
          /\ SegmentStartsWith(outcome.value[k].path, args.partial_input)
          /\ outcome.value[k].match_score = 50

-----------------------------------------------------------------------------
\* Properties of the concurrency token of the wiki updates.

\* the locations of the token on a fetched object, in the order they are probed
TokenOrder ==
    <<"eTag", "etag", "e_tag", "_etag", "page.eTag", "page.etag", "page.e_tag">>

PresentAt(resp) ==
    { k \in 1..Len(TokenOrder) :
        resp.kind = "resp" /\ TokenOrder[k] \in DOMAIN resp.tags }

\* the value of the first location present, no token when none is
FirstPresentToken(resp) ==
    IF PresentAt(resp) = {} THEN NoVersion
    ELSE LET first == CHOOSE k \in PresentAt(resp) : \A l \in PresentAt(resp) : k <= l
         IN  resp.tags[TokenOrder[first]]

\* the step issues a remote call on behalf of update_wiki_page_safe
SafeCallIssued ==
    /\ Len(calls') = Len(calls) + 1
    /\ calls'[Len(calls')].by = "update_wiki_page_safe"

\* C23: in every attempt of update_wiki_page_safe the token sent with the write
\* is the one of the object the fetch of that attempt returned; a write follows
\* a fetch that returned, with no other call in between, so a token of an
\* earlier attempt is never sent and nothing is written without a fetch.
C23_TokenOfSameAttempt ==
    [][(SafeCallIssued /\ IsWrite(calls'[Len(calls')])) =>
          /\ calls # <<>>
          /\ IsFetch(calls[Len(calls)])
          /\ calls[Len(calls)].by = "update_wiki_page_safe"
          /\ calls[Len(calls)].err = <<>>
          /\ calls[Len(calls)].path = calls'[Len(calls')].path
          /\ calls'[Len(calls')].version = FirstPresentToken(local.page)]_vars

\* the write of a later attempt carries a token other than the one sent before
C23_Witness ==
    /\ InUpdateSafe
    /\ \E i, j \in 1..Len(calls) :
          /\ i < j
          /\ IsWrite(calls[i]) /\ IsWrite(calls[j])
          /\ calls[i].version # NoVersion
          /\ calls[j].version # NoVersion
          /\ calls[i].version # calls[j].version
          /\ calls[j].version = FirstPresentToken(local.page)

\* the message of the error raised after the loop
IsExhaustedMsg(m) ==
    /\ Len(m) = 12
    /\ SubSeq(m, 1, 6) = <<"Failed", "to", "update", "wiki", "page", "after">>
    /\ SubSeq(m, 8, 12) = <<"attempts", "due", "to", "version", "conflicts">>

\* C27: update_wiki_page_safe called with max_retries <= 0 issues no remote
\* call and raises the exhausted-retries error, and that error is raised by
\* update_wiki_page_safe in no other case.
C27_ExhaustedOnlyWithoutAttempts ==
    /\ (InUpdateSafe /\ args.max_retries <= 0) =>
          /\ calls = <<>>
          /\ Done
          /\ outcome.kind = "raise"
          /\ IsExhaustedMsg(outcome.err.msg)
          /\ outcome.err.msg[7] = ToString(args.max_retries)
          /\ wiki = wiki0
    /\ (InSafe /\ local.inner.kind = "raise" /\ IsExhaustedMsg(local.inner.err.msg)) =>
          args.max_retries <= 0

\* a call with max_retries = 0 has raised the error
C27_Witness ==
    /\ InUpdateSafe /\ args.max_retries = 0 /\ Done
    /\ outcome.kind = "raise" /\ IsExhaustedMsg(outcome.err.msg)
    /\ calls = <<>>

\* the step issues the write of update_wiki_page or of update_wiki_page_safe
UpdateWrites ==
    /\ Len(calls') = Len(calls) + 1
    /\ IsWrite(calls'[Len(calls')])
    /\ calls'[Len(calls')].by \in {"update_wiki_page", "update_wiki_page_safe"}

\* a location of the object holds a token
CarriesToken(resp) ==
    \E k \in PresentAt(resp) : resp.tags[TokenOrder[k]] # NoVersion

-----------------------------------------------------------------------------
\* update_wiki_page_safe with one attempt against update_wiki_page.

\* the same remote call with the same answer
SameCall(a, b) ==
    /\ a.fn = b.fn
    /\ a.path = b.path
    /\ a.version = b.version
    /\ a.content = b.content
    /\ a.err = b.err

SafeOnceOver == InUpdateSafe /\ pc = "done" /\ remote.first.over

\* C29: update_wiki_page_safe with max_retries = 1 does what update_wiki_page
\* does against the same remote behaviour: the same remote calls in the same
\* order (one fetch, then one write carrying the fetched token), the same
\* result or the same error, and the same pages afterwards.
C29_SafeOnceIsPlain ==
    SafeOnceOver =>
        /\ args.max_retries = 1
        /\ Len(calls) = Len(remote.first.calls)
        /\ \A i \in 1..Len(calls) : SameCall(calls[i], remote.first.calls[i])
        /\ outcome = remote.first.outcome
        /\ wiki = remote.first.wiki
        /\ Len(calls) \in {1, 2}
        /\ IsFetch(calls[1])
        /\ Len(calls) = 2 =>
              /\ IsWrite(calls[2])
              /\ calls[1].err = <<>>
              /\ calls[2].version = FirstPresentToken(local.page)

\* both runs fetched the page, lost it to another writer and had their write
\* refused with the version conflict
C29_Witness ==
    /\ SafeOnceOver
    /\ Len(calls) = 2
    /\ calls[2].version # NoVersion
    /\ calls[2].err = <<"Version", "conflict">>
    /\ remote.other_writer
    /\ outcome.kind = "raise"
    /\ remote.first.outcome.kind = "raise"

-----------------------------------------------------------------------------
\* Properties of search_work_items.

IsQuery(c) == c.fn = "query_by_wiql"

\* the query names the project field
NamesProject(q) ==
    \E i \in 1..(Len(q) - Len(TeamProjectField) + 1) :
        SubSeq(q, i, i + Len(TeamProjectField) - 1) = TeamProjectField

\* C25: every query search_work_items sends is scoped by the project: whatever
\* the input query, with or without a WHERE clause in any letter case, the
\* query sent contains a [System.TeamProject] predicate, and a query that
\* already contains one is sent unchanged.
C25_EveryQueryScoped ==
    InSearchItems =>
        \A i \in 1..Len(calls) :
            IsQuery(calls[i]) =>
                /\ NamesProject(calls[i].query)
                /\ NamesProject(args.wiql_query) => calls[i].query = args.wiql_query

-----------------------------------------------------------------------------
\* Properties of the project context.

\* a project name, as opposed to none or the empty text
IsProject(p) == p # NoneValue /\ p # ""

\* the project of the most recent set_project_context of history h that no
\* clear_project_context follows
ActiveContext(h) ==
    LET sets == { i \in 1..Len(h) : h[i].set }
    IN  IF sets = {} THEN NoneValue
        ELSE LET last == CHOOSE i \in sets : \A j \in sets : j <= i
             IN  IF \E j \in (last + 1)..Len(h) : ~h[j].set THEN NoneValue
                 ELSE h[last].project

InDefaulting == op \in DefaultingOps

\* C21: after any sequence of set_project_context and clear_project_context
\* calls, get_work_item_comments, add_work_item_comment, list_iterations and
\* list_iteration_work_items make their remote calls for the project the
\* caller gives, otherwise for the project of the most recent
\* set_project_context that no clear_project_context follows; with neither
\* they raise a ValueError before any remote call.
C21_ProjectDefaulting ==
    InDefaulting =>
        LET expected == IF IsProject(args.project) THEN args.project
                        ELSE ActiveContext(local.history)
        IN  IF IsProject(expected)
            THEN /\ \A i \in 1..Len(calls) : calls[i].project = expected
                 /\ pc = "over" => calls # <<>>
                 /\ outcome.kind = "raise" => outcome.err.src = Len(calls)
            ELSE /\ pc = "over"
                 /\ calls = <<>>
                 /\ outcome.kind = "raise"
                 /\ outcome.err.src = 0
                 /\ outcome.err.type = "ValueError"

\* list_iterations without a project, after set P1, clear, set P2, has made its
\* two remote calls for P2
C21_Witness ==
    /\ op = "list_iterations" /\ pc = "over"
    /\ args.project = NoneValue
    /\ Len(local.history) = 3
    /\ local.history[1] = [set |-> TRUE, project |-> "P1"]
    /\ ~local.history[2].set
    /\ local.history[3] = [set |-> TRUE, project |-> "P2"]
    /\ Len(calls) = 2
    /\ calls[1].project = "P2" /\ calls[2].project = "P2"
    /\ outcome.kind = "return"

\* the step is a call of set_project_context or clear_project_context, on the
\* client or through call_tool
ContextCall ==
    \/ op' \in {"set_project_context", "clear_project_context"}
    \/ /\ op' = "call_tool"
       /\ args'.name \in {"set_project_context", "clear_project_context"}

\* C22: the project context is changed only by set_project_context and
\* clear_project_context; every other client operation and every other tool
\* call, returning or failing, given a project or not, leaves it as it was.
C22_ContextFrame ==
    [][ContextCall \/ server'.client.project_context = server.client.project_context]_vars

\* an operation given P2 has run to its end while the context is P1
C22_Witness ==
    /\ InDefaulting /\ pc = "over"
    /\ args.project = "P2"
    /\ server.client.project_context = "P1"
    /\ calls # <<>>
    /\ calls[1].project = "P2"

-----------------------------------------------------------------------------
\* Properties of call_tool without a client.

\* the response is the result of a health check
HealthDelivered ==
    /\ args'.name = "server_health_check"
    /\ outcome'.kind = "return"
    /\ outcome'.value[1] = "json"

\* C30: while the client is not initialised, call_tool answers every name,
\* server_health_check, list_tools and get_tool_documentation included, with
\* the "client not initialized" error text and executes no tool; so every
\* health-check result delivered through call_tool says client_initialized is
\* true.
C30_NoToolWithoutClient ==
    [][CallAnswered =>
          /\ server.client = NoneObj =>
                /\ outcome' = Returned(<<"Error:", "Azure", "DevOps", "client", "not",
                                         "initialized.", "Please", "check", "your",
                                         "configuration.">>)
                /\ calls' = <<>>
                /\ local'.exec = "none"
                /\ server'.client = NoneObj
                /\ server'.tools_registered = server.tools_registered
                /\ server'.phase = server.phase
          /\ HealthDelivered => outcome'.value[2].client_initialized]_vars

\* a server_health_check called before run() was refused, the variables of the
\* environment being set
C30_Witness ==
    /\ server.phase = "new" /\ server.served > 0
    /\ server.client = NoneObj
    /\ ValidateEnvironment(server.env)
    /\ args.name = "server_health_check"
    /\ outcome.kind = "return"
    /\ outcome.value[1] = "Error:"
    /\ local.exec = "none"

====
